---- MODULE Spec2Model ----
(***************************************************************************)
(* Settlement subsystem of DS_Backend: vendor wallet ledger, withdrawals,  *)
(* commission remittance, wallet-paid subscription changes, cash-in        *)
(* credit, the idempotency guard and order materialization.                *)
(*                                                                         *)
(* Money is kept in integer centavos everywhere (the wallet stores pesos   *)
(* as amount / 100; the model multiplies the wallet side by 100).          *)
(*                                                                         *)
(* Database semantics modelled (MongoDB):                                  *)
(*   - a single-document update with a filter is atomic;                   *)
(*   - a multi-document transaction reads the snapshot taken at its first  *)
(*     operation, buffers its writes until commit, and a write to a        *)
(*     document that another open transaction has written, or that was     *)
(*     changed after the snapshot, fails with a write conflict;            *)
(*   - a write outside a transaction waits while an open transaction holds *)
(*     the document.                                                       *)
(***************************************************************************)
EXTENDS Integers, FiniteSets, Sequences, TLC

\* ------------------------------------------------------------------ bounds
MaxWithdrawals == 2
MaxAdminOps == 2
WithdrawAdminOps == 1
AdminWithdrawals == 1
MaxRemits == 2
MaxPlanCalls == 2
MaxDays == 8
DebitsWithdrawals == 1
DebitsRemits == 1
DebitsPlanCalls == 1
MaxTriggers == 2
MaxCashCalls == 2
MaxMatCalls == 3
MaxClock == 12
StaleCalls == 2
PartialCalls == 2
MaxRecCalls == 2
MaxRecClock == 2
MaxCodCalls == 1
MaxBatch == 3
MaxFailures == 7
MaxNow == 100
BreakerRemits == 1
TickSeconds == 25

Withdrawals == 1..MaxWithdrawals
AdminOps == 1..MaxAdminOps
Remits == 1..MaxRemits
PlanCalls == 1..MaxPlanCalls
Triggers == 1..MaxTriggers
CashCalls == 1..MaxCashCalls
MatCalls == 1..MaxMatCalls
RecCalls == 1..MaxRecCalls
CodCalls == 1..MaxCodCalls

\* ------------------------------------------------------- program constants
MinWithdrawal == 10000
threshold == 5
resetTimeout == 60
RetentionDays == 7
StaleMinutes == 10

\* ------------------------------------------------------------- input data
WithdrawAmounts == {5000, 10000, 20000}
InitBalances == {10000, 20000}
CommissionAmounts == {10000}
Plans == {"free", "basic", "pro"}
NoKey == "none"
IdemKeys == {"k1"}
CommissionStatuses == {"pending", "overdue", "remitted", "waived", "disputed"}
CallerKeys == {NoKey, "k1"}
NoOwner == <<"none", 0>>

VARIABLES
  balance,      \* VendorWallet.balance of the vendor, in centavos
  walletLock,   \* the open transaction holding a write on the wallet
  dirtyW,       \* open transactions whose snapshot of the wallet is outdated
  wtx,          \* WalletTransaction collection (completed rows)
  strictQuery,  \* whether the ODM strips undeclared paths from a filter
  payRows,      \* withdraw Payment rows, one slot per createWithdrawal call
  cw,           \* createWithdrawal calls
  adm,          \* approve / reject / cancel calls
  comm,         \* the Commission document
  commLock,     \* the open transaction holding a write on the commission
  dirtyC,       \* open transactions whose snapshot of the commission is outdated
  rm,           \* remitCommissionViaWallet calls
  cb,           \* circuitBreaker
  now,          \* Date.now() in seconds
  pl,           \* startOrChangePlan calls (withIdempotency + handler)
  idemRec,      \* IdempotencyKey collection, by key
  day,          \* calendar day, for the TTL index
  keyPool,      \* idempotency keys the callers use
  planDebits,   \* wallet debits committed by the plan handler
  cashPay,      \* the cash-in Payment document
  payLock,      \* the open transaction holding a write on the cash-in Payment
  dirtyP,       \* open transactions whose snapshot of the cash-in Payment is outdated
  ct,           \* processWebhook(payment.paid) / checkPaymentStatus calls for it
  cashRows,     \* cash-in Payment rows of the user, one slot per createCashIn call
  foreignKeys,  \* idempotency keys on the user's Payment rows of other types
  cc,           \* createCashIn calls
  coPay,        \* the pay-first checkout Payment document
  orders,       \* Order collection (orders of that payment)
  mt,           \* materialization triggers: webhook, status poll, recovery
  clock,        \* Date.now() in minutes
  stored,       \* VendorWallet.balance as the stored double, in pesos
  rt,           \* one withdrawal created and then rejected
  gwPay,        \* a gateway-paid Payment document (checkout or cash-in)
  rc,           \* checkPaymentStatus / processWebhook / createRefund calls for it
  rcClock,      \* new Date() for paidAt
  triggers,     \* downstream effects started for it (order creation, wallet credit)
  docs,         \* Payment collection as the creators fill it, in insertion order
  cr,           \* the creator call in progress or last finished
  mail,         \* the sendWithRetries call
  sendMail,     \* outcomes of the transporter.sendMail calls, in call order
  metrics,      \* monitoringService counters for "mailer"
  categories,   \* ProductCategory collection, by normalized name
  pm,           \* incrementCategory / decrementCategory calls
  incs,         \* incrementCategory calls that updated the collection, by normalized name
  decs,         \* decrementCategory calls that have started, by normalized name
  cod,          \* createCODCommission calls
  codComms,     \* orders that have a Commission
  brk,          \* history of the circuit breaker: oldest counted failure, opening
  vendorComms,  \* the vendor's Commission documents, by id
  bulk          \* the bulkRemitCommissions call

walletVars == <<balance, walletLock, dirtyW, wtx>>
wdVars == <<strictQuery, payRows, cw, adm>>
commVars == <<comm, commLock, dirtyC, rm, cb, now>>
planVars == <<pl, idemRec, day, keyPool, planDebits>>

cashVars == <<cashPay, payLock, dirtyP, ct>>
ccVars == <<cashRows, foreignKeys, cc>>
matVars == <<coPay, orders, mt, clock>>
payVars == <<cashVars, ccVars, matVars>>

roundTripVars == <<stored, rt>>
recVars == <<gwPay, rc, rcClock, triggers>>
createVars == <<docs, cr>>
mailVars == <<mail, sendMail, metrics>>
metaVars == <<categories, pm, incs, decs>>
codVars == <<cod, codComms, brk>>
bulkVars == <<vendorComms, bulk>>
extVars == <<roundTripVars, recVars, createVars, mailVars, metaVars, codVars, bulkVars>>

vars == <<walletVars, wdVars, commVars, planVars, payVars, extVars>>

\* ----------------------------------------------------------------- helpers
RECURSIVE SumAmounts(_)
SumAmounts(S) ==
  IF S = {} THEN 0
  ELSE LET t == CHOOSE x \in S : TRUE IN t.amount + SumAmounts(S \ {t})

\* call slots are taken in order (the slots are interchangeable)
InOrder(calls, i) == IF i = 1 THEN TRUE ELSE calls[i - 1].pc # "idle"

\* transactions that have taken their snapshot and not yet finished
OpenRemits == {<<"remit", r>> : r \in {x \in Remits : rm[x].pc \in {"setkey", "wallet", "debit", "commit"}}}

OpenCredits == {<<"cashin", t>> : t \in {x \in Triggers : ct[x].pc \in {"txn_wallet", "txn_pay", "txn_commit"}}}
OpenTxns == OpenRemits \cup OpenCredits

\* a committed change of the wallet outdates every other open snapshot
WalletChanged(by) == dirtyW' = (dirtyW \cup OpenTxns) \ {by}
CommissionChanged(by) == dirtyC' = (dirtyC \cup OpenRemits) \ {by}

\* --------------------------------------------------------- circuit breaker
checkCircuitBreaker(b, t) ==
  IF ~b.isOpen THEN [ok |-> TRUE, cb |-> b]
  ELSE IF t - b.lastFailure > resetTimeout
       THEN [ok |-> TRUE, cb |-> [b EXCEPT !.isOpen = FALSE, !.failures = 0]]
       ELSE [ok |-> FALSE, cb |-> b]

recordFailure(b, t) ==
  [failures |-> b.failures + 1,
   lastFailure |-> t,
   isOpen |-> (b.isOpen \/ b.failures + 1 >= threshold)]

\* ------------------------------------------------------- createWithdrawal
\* the key stored on the row: the caller's key, or a hash of the request
WithdrawalKey(rawKey, amount) ==
  IF rawKey # NoKey THEN <<rawKey, 0>> ELSE <<NoKey, amount>>

\* Payment.findOne({ userId, idempotencyKeySanitized: key, type: "withdraw" }):
\* the path is not in the schema, so the filter is either kept (no row has
\* it) or stripped (any withdraw row of the vendor matches)
WithdrawalPreQueryHit == strictQuery /\ \E x \in Withdrawals : payRows[x].status # "none"

WithdrawalDebitFilter_Unconditional(bal, amount) == TRUE

\* filter of the conditional debit { user, balance: { $gte: amountPhp } }
WithdrawalDebitFilter(bal, amount) == bal >= amount

\* a finished call: only its outcome is kept
CwDone(res) == [pc |-> "done", amount |-> 0, rawKey |-> NoKey, result |-> res]

CW_Begin(w, amount, rawKey) ==
  /\ cw[w].pc = "idle"
  /\ InOrder(cw, w)
  /\ IF amount < MinWithdrawal
     THEN cw' = [cw EXCEPT ![w] = CwDone("ValidationError: minimum amount")]
     ELSE IF WithdrawalPreQueryHit
     THEN cw' = [cw EXCEPT ![w] = CwDone("existing")]
     ELSE cw' = [cw EXCEPT ![w] = [pc |-> "read", amount |-> amount, rawKey |-> rawKey, result |-> "none"]]
  /\ UNCHANGED <<walletVars, strictQuery, payRows, adm>>

\* getOrCreateForUser + the read-then-compare balance check
InsufficientForWithdrawal_Unchecked(vendorBalance, amount) == FALSE

InsufficientForWithdrawal(vendorBalance, amount) == vendorBalance < amount

CW_CheckBalance(w) ==
  /\ cw[w].pc = "read"
  /\ IF InsufficientForWithdrawal(balance, cw[w].amount)
     THEN cw' = [cw EXCEPT ![w] = CwDone("ValidationError: insufficient balance")]
     ELSE cw' = [cw EXCEPT ![w].pc = "create"]
  /\ UNCHANGED <<walletVars, strictQuery, payRows, adm>>

\* Payment.create in the session + commitTransaction; the unique index on
\* (userId, idempotencyKey) rejects a second row with the same key (E11000),
\* and the catch block then looks the row up by the caller's raw key
CW_CreatePayment(w) ==
  /\ cw[w].pc = "create"
  /\ LET key == WithdrawalKey(cw[w].rawKey, cw[w].amount)
         dup == \E x \in Withdrawals : payRows[x].status # "none" /\ payRows[x].key = key
     IN IF dup
        THEN /\ \E res \in (IF cw[w].rawKey # NoKey THEN {"existing"} ELSE {"existing", "ConflictError"}) :
                  cw' = [cw EXCEPT ![w] = CwDone(res)]
             /\ UNCHANGED payRows
        ELSE /\ payRows' = [payRows EXCEPT ![w] = [status |-> "pending", amount |-> cw[w].amount, key |-> key, debited |-> FALSE,
                                                 isFinal |-> FALSE, credits |-> 0]]
             /\ cw' = [cw EXCEPT ![w].pc = "debit"]
  /\ UNCHANGED <<walletVars, strictQuery, adm>>

\* VendorWallet.findOneAndUpdate({ user, balance: { $gte } }, { $inc }) after
\* the commit; no WalletTransaction row is written
CW_Debit(w) ==
  /\ cw[w].pc = "debit"
  /\ walletLock = NoOwner
  /\ IF WithdrawalDebitFilter(balance, cw[w].amount)
     THEN /\ balance' = balance - cw[w].amount
          /\ payRows' = [payRows EXCEPT ![w].debited = TRUE]
          /\ cw' = [cw EXCEPT ![w] = CwDone("ok")]
          /\ WalletChanged(NoOwner)
     ELSE /\ cw' = [cw EXCEPT ![w] = CwDone("Error")]
          /\ UNCHANGED <<balance, payRows, dirtyW>>
  /\ UNCHANGED <<walletLock, wtx, strictQuery, adm>>

\* ------------------------------- approve / reject / cancel a withdrawal
\* statuses from which the operation is accepted
AdminAccepts(kind, status) ==
  CASE kind = "approve" -> status = "pending"
    [] kind = "reject" -> status = "pending"
    [] kind = "cancel" -> status \in {"pending", "processing"}

AdminTarget(kind) ==
  CASE kind = "approve" -> "succeeded"
    [] kind = "reject" -> "rejected"
    [] kind = "cancel" -> "cancelled"

\* statuses an admin may post to updateWithdrawalStatus (the schema's enum
\* admits them on save)
UpdateStatuses == {"succeeded", "failed", "rejected", "cancelled", "processing", "pending"}

\* a finished call: only its outcome is kept
AdmDone(res) == [pc |-> "done", kind |-> "approve", target |-> 1, status |-> "none", loaded |-> "none", result |-> res]

\* Payment.findById and the type / status checks
AdmCheck(a, kind, w) ==
  IF payRows[w].status = "none"
  THEN adm' = [adm EXCEPT ![a] = AdmDone("NotFoundError")]
  ELSE IF ~AdminAccepts(kind, payRows[w].status)
  THEN adm' = [adm EXCEPT ![a] = AdmDone("ValidationError")]
  ELSE adm' = [adm EXCEPT ![a] = [pc |-> "save", kind |-> kind, target |-> w, status |-> AdminTarget(kind),
                                  loaded |-> payRows[w].status, result |-> "none"]]

Adm_Read(a, kind, w) ==
  /\ adm[a].pc = "idle"
  /\ InOrder(adm, a)
  /\ AdmCheck(a, kind, w)
  /\ UNCHANGED <<walletVars, strictQuery, payRows, cw>>

\* payment.save() of the loaded document: status and isFinal are written
Adm_Save(a) ==
  /\ adm[a].pc = "save"
  /\ payRows' = [payRows EXCEPT ![adm[a].target].status = AdminTarget(adm[a].kind),
                                ![adm[a].target].isFinal = TRUE]
  /\ IF adm[a].kind = "approve"
     THEN adm' = [adm EXCEPT ![a] = AdmDone("ok")]
     ELSE adm' = [adm EXCEPT ![a].pc = "credit"]
  /\ UNCHANGED <<walletVars, strictQuery, cw>>

\* VendorWallet.findOneAndUpdate({ user }, { $inc: { balance: amountPhp } });
\* the $push is passed as the options argument; no WalletTransaction row
Adm_Credit(a) ==
  /\ adm[a].pc = "credit"
  /\ walletLock = NoOwner
  /\ balance' = balance + payRows[adm[a].target].amount
  /\ payRows' = [payRows EXCEPT ![adm[a].target].credits = @ + 1]
  /\ adm' = [adm EXCEPT ![a] = AdmDone("ok")]
  /\ WalletChanged(NoOwner)
  /\ UNCHANGED <<walletLock, wtx, strictQuery, cw>>

\* ------------------------------------------------- updateWithdrawalStatus
\* the operation a posted status is handed to
Delegate(status) ==
  CASE status = "succeeded" -> "approve"
    [] status \in {"failed", "rejected"} -> "reject"
    [] OTHER -> "update"

\* Payment.findById; succeeded goes to approveWithdrawal, failed / rejected
\* to rejectWithdrawal, any other status is set on the loaded document
UWS_Read(a, status, w) ==
  /\ adm[a].pc = "idle"
  /\ InOrder(adm, a)
  /\ IF payRows[w].status = "none"
     THEN adm' = [adm EXCEPT ![a] = AdmDone("NotFoundError")]
     ELSE adm' = [adm EXCEPT ![a] = [pc |-> IF Delegate(status) = "update" THEN "usave" ELSE "delegated",
                                     kind |-> Delegate(status), target |-> w, status |-> status,
                                     loaded |-> payRows[w].status, result |-> "none"]]
  /\ UNCHANGED <<walletVars, strictQuery, payRows, cw>>

\* approveWithdrawal / rejectWithdrawal called from updateWithdrawalStatus:
\* they load the payment again
UWS_Delegated(a) ==
  /\ adm[a].pc = "delegated"
  /\ AdmCheck(a, adm[a].kind, adm[a].target)
  /\ UNCHANGED <<walletVars, strictQuery, payRows, cw>>

\* payment.status = status; isFinal only for cancelled; payment.save() writes
\* the paths that differ from the loaded document; the wallet is not touched
UWS_Save(a) ==
  /\ adm[a].pc = "usave"
  /\ payRows' = [payRows EXCEPT
       ![adm[a].target].status = IF adm[a].status # adm[a].loaded THEN adm[a].status ELSE @,
       ![adm[a].target].isFinal = IF adm[a].status = "cancelled" THEN TRUE ELSE @]
  /\ adm' = [adm EXCEPT ![a] = AdmDone("ok")]
  /\ UNCHANGED <<walletVars, strictQuery, cw>>

\* ------------------------------------------------ remitCommissionViaWallet
RemitFail(r, res) ==
  /\ rm' = [rm EXCEPT ![r] = [pc |-> "done", snapHasKey |-> FALSE, snapBal |-> 0, result |-> res]]
  /\ cb' = recordFailure(cb, now)
  /\ walletLock' = IF walletLock = <<"remit", r>> THEN NoOwner ELSE walletLock
  /\ commLock' = IF commLock = <<"remit", r>> THEN NoOwner ELSE commLock
  /\ dirtyW' = dirtyW \ {<<"remit", r>>}
  /\ dirtyC' = dirtyC \ {<<"remit", r>>}

\* status filter of ensureCommissionForRemit
RemittableStatus(status) == status \in {"pending", "overdue"}

\* filter of the conditional decrement { _id, balance: { $gte: commissionAmount } }
RemitDebitFilter(bal, amount) == bal >= amount

\* checkCircuitBreaker, then ensureCommissionForRemit: the first read of the
\* transaction fixes its snapshot
Remit_Begin(r) ==
  /\ rm[r].pc = "idle"
  /\ InOrder(rm, r)
  /\ LET chk == checkCircuitBreaker(cb, now)
     IN IF ~chk.ok
        THEN /\ rm' = [rm EXCEPT ![r].pc = "done", ![r].result = "ExternalServiceError"]
             /\ cb' = recordFailure(chk.cb, now)
        ELSE IF ~RemittableStatus(comm.status)
        THEN /\ rm' = [rm EXCEPT ![r].pc = "done", ![r].result = "NotFoundError"]
             /\ cb' = recordFailure(chk.cb, now)
        ELSE /\ rm' = [rm EXCEPT ![r].pc = "setkey", ![r].snapHasKey = comm.hasKey,
                                 ![r].snapBal = balance]
             /\ cb' = chk.cb
  /\ UNCHANGED <<walletVars, comm, commLock, dirtyC, now>>

DuplicateRemittance_Unchecked(snapHasKey) == FALSE

\* Commission.findOne({ remittanceIdempotencyKey: key }) in the session: the
\* key is deterministic per commission, so it finds the commission itself
\* once a remittance has committed
DuplicateRemittance(snapHasKey) == snapHasKey

InSession_Immediate(kept, written) == written

\* a write made with { session } is buffered until commitTransaction: the
\* stored document keeps its value
InSession(kept, written) == kept

\* setCommissionIdempotencyKeyOnce: the duplicate lookup, then
\* commission.save({ session })
Remit_SetKey(r) ==
  /\ rm[r].pc = "setkey"
  /\ IF DuplicateRemittance(rm[r].snapHasKey)
     THEN RemitFail(r, "ConflictError") /\ UNCHANGED comm
     ELSE IF commLock # NoOwner \/ <<"remit", r>> \in dirtyC
     THEN RemitFail(r, "WriteConflict") /\ UNCHANGED comm
     ELSE /\ commLock' = <<"remit", r>>
          /\ comm' = [comm EXCEPT !.hasKey = InSession(@, TRUE)]
          /\ rm' = [rm EXCEPT ![r].pc = "wallet"]
          /\ UNCHANGED <<walletLock, dirtyW, dirtyC, cb>>
  /\ UNCHANGED <<balance, wtx, now>>

\* getOrCreateVendorWalletInSession and the amount / balance validation
Remit_CheckWallet(r) ==
  /\ rm[r].pc = "wallet"
  /\ IF comm.amount <= 0 \/ rm[r].snapBal < comm.amount
     THEN RemitFail(r, "ValidationError")
     ELSE /\ rm' = [rm EXCEPT ![r].pc = "debit"]
          /\ UNCHANGED <<walletLock, commLock, dirtyW, dirtyC, cb>>
  /\ UNCHANGED <<balance, wtx, comm, now>>

\* WalletTransaction.create and the conditional decrement, both in the session
Remit_Debit(r) ==
  /\ rm[r].pc = "debit"
  /\ IF walletLock # NoOwner \/ <<"remit", r>> \in dirtyW
     THEN RemitFail(r, "WriteConflict")
     ELSE IF ~RemitDebitFilter(balance, comm.amount)
     THEN RemitFail(r, "ValidationError")
     ELSE /\ walletLock' = <<"remit", r>>
          /\ rm' = [rm EXCEPT ![r].pc = "commit"]
          /\ UNCHANGED <<commLock, dirtyW, dirtyC, cb>>
  /\ UNCHANGED <<balance, wtx, comm, now>>

\* commission.save({ session }) and commitTransaction: the buffered writes
\* become visible together
Remit_Commit(r) ==
  /\ rm[r].pc = "commit"
  /\ balance' = balance - comm.amount
  /\ wtx' = wtx \cup {[type |-> "debit", amount |-> comm.amount, refType |-> "commission", by |-> <<"remit", r>>]}
  /\ comm' = [comm EXCEPT !.status = "remitted", !.hasKey = TRUE, !.remits = comm.remits + 1]
  /\ rm' = [rm EXCEPT ![r] = [pc |-> "done", snapHasKey |-> FALSE, snapBal |-> 0, result |-> "ok"]]
  /\ walletLock' = NoOwner
  /\ commLock' = NoOwner
  /\ WalletChanged(<<"remit", r>>)
  /\ CommissionChanged(<<"remit", r>>)
  /\ UNCHANGED <<cb, now>>

\* updateCommissionStatus (admin): findById, status := newStatus, save
UpdateCommissionStatus(newStatus) ==
  /\ commLock = NoOwner
  /\ comm.admin < MaxAdminOps
  /\ comm' = [comm EXCEPT !.status = newStatus, !.admin = comm.admin + 1]
  /\ dirtyC' = dirtyC \cup OpenRemits
  /\ UNCHANGED <<walletVars, commLock, rm, cb, now>>

\* ---------------------------------------------------------- withIdempotency
\* sha256(JSON.stringify(body)): distinct bodies give distinct hashes
RequestHash(plan) == <<"sha256", plan>>

\* the result the handler returns
HandlerResponse(plan) == <<"subscription", plan>>

\* the result as kept in the record's Mixed `response` field
StoredResponse(result) == <<"stored", result[2]>>

NoRecord == [status |-> "none", requestHash |-> <<"sha256", "none">>,
             response |-> <<"none", "none">>, createdAt |-> 0]

\* `if (!key) return handler()`, else IdempotencyKey.findOne({ key, userId, route })
\* and the completed / started branches
Idem_Lookup(p, key, plan) ==
  /\ pl[p].pc = "idle"
  /\ InOrder(pl, p)
  /\ key \in keyPool
  /\ LET call == [pl[p] EXCEPT !.key = key, !.plan = plan, !.at = day]
     IN IF key = NoKey
        THEN pl' = [pl EXCEPT ![p] = [call EXCEPT !.pc = "handler"]]
        ELSE LET existing == idemRec[key]
             IN IF existing.status = "none"
                THEN pl' = [pl EXCEPT ![p] = [call EXCEPT !.pc = "create"]]
                ELSE IF existing.requestHash # RequestHash(plan)
                THEN pl' = [pl EXCEPT ![p] = [call EXCEPT !.pc = "done", !.result = "409 reused with different payload"]]
                ELSE IF existing.status = "completed"
                THEN pl' = [pl EXCEPT ![p] = [call EXCEPT !.pc = "done", !.result = "replayed", !.response = existing.response]]
                ELSE pl' = [pl EXCEPT ![p] = [call EXCEPT !.pc = "done", !.result = "409 already in progress"]]
  /\ UNCHANGED <<walletVars, idemRec, day, keyPool, planDebits>>

\* IdempotencyKey.create({ ..., status: "started" }) under the unique index on key
IdemCreateAllowed(rec) == rec.status = "none"

Idem_Create(p) ==
  /\ pl[p].pc = "create"
  /\ IF IdemCreateAllowed(idemRec[pl[p].key])
     THEN /\ idemRec' = [idemRec EXCEPT ![pl[p].key] =
                           [status |-> "started", requestHash |-> RequestHash(pl[p].plan),
                            response |-> <<"none", "none">>, createdAt |-> day]]
          /\ pl' = [pl EXCEPT ![p].pc = "handler"]
     ELSE /\ pl' = [pl EXCEPT ![p].pc = "done", ![p].result = "E11000 duplicate key"]
          /\ UNCHANGED idemRec
  /\ UNCHANGED <<walletVars, day, keyPool, planDebits>>

\* handler returned: updateOne({ key, userId, route }, { status: "completed", response })
Idem_Complete(p) ==
  /\ pl[p].pc = "succeeded"
  /\ pl' = [pl EXCEPT ![p].pc = "done", ![p].result = "ok", ![p].response = HandlerResponse(pl[p].plan)]
  /\ IF pl[p].key # NoKey /\ idemRec[pl[p].key].status # "none"
     THEN idemRec' = [idemRec EXCEPT ![pl[p].key].status = "completed",
                                     ![pl[p].key].response = StoredResponse(HandlerResponse(pl[p].plan))]
     ELSE UNCHANGED idemRec
  /\ UNCHANGED <<walletVars, day, keyPool, planDebits>>

RecordAfterFailure_Kept(rec) == rec

\* what the catch block leaves of the record: deleteOne({ key, userId, route })
RecordAfterFailure(rec) == NoRecord

\* handler threw: the record is deleted and the error rethrown
Idem_Fail(p) ==
  /\ pl[p].pc = "failed"
  /\ pl' = [pl EXCEPT ![p].pc = "done", ![p].result = "error"]
  /\ IF pl[p].key # NoKey
     THEN idemRec' = [idemRec EXCEPT ![pl[p].key] = RecordAfterFailure(idemRec[pl[p].key])]
     ELSE UNCHANGED idemRec
  /\ UNCHANGED <<walletVars, day, keyPool, planDebits>>

Expired_AfterOneDay(rec, today) == rec.status # "none" /\ today - rec.createdAt >= 1

\* the TTL index { createdAt: 1 }, expireAfterSeconds 7 days
Expired(rec, today) == rec.status # "none" /\ today - rec.createdAt >= RetentionDays

Idem_Expire(key) ==
  /\ Expired(idemRec[key], day)
  /\ idemRec' = [idemRec EXCEPT ![key] = NoRecord]
  /\ UNCHANGED <<walletVars, pl, day, keyPool, planDebits>>

\* a day passes; a request (one HTTP call, one database transaction) lasts
\* far less than a day, so none is in flight across the step
DayPasses ==
  /\ day < MaxDays
  /\ \A p \in PlanCalls : pl[p].pc \in {"off", "idle", "done"}
  /\ day' = day + 1
  /\ UNCHANGED <<walletVars, pl, idemRec, keyPool, planDebits>>

\* ------------------------- startOrChangePlan handler, paid from the wallet
PlanPrice(plan) ==
  CASE plan = "free" -> 0
    [] plan = "basic" -> 10000
    [] plan = "pro" -> 20000

\* filter of the conditional debit { user, balance: { $gte: expectedAmountPhp } }
PlanDebitFilter(bal, price) == bal >= price

\* runInTransaction, step 1: the conditional wallet debit in the session
Plan_Debit(p) ==
  /\ pl[p].pc = "handler"
  /\ LET price == PlanPrice(pl[p].plan)
     IN IF price = 0
        THEN /\ pl' = [pl EXCEPT ![p].pc = "commit"]
             /\ UNCHANGED walletLock
        ELSE IF walletLock # NoOwner
        THEN /\ pl' = [pl EXCEPT ![p].pc = "failed"]
             /\ UNCHANGED walletLock
        ELSE IF PlanDebitFilter(balance, price)
        THEN /\ pl' = [pl EXCEPT ![p].pc = "commit"]
             /\ walletLock' = <<"plan", p>>
        ELSE /\ pl' = [pl EXCEPT ![p].pc = "failed"]
             /\ UNCHANGED walletLock
  /\ UNCHANGED <<balance, dirtyW, wtx, idemRec, day, keyPool, planDebits>>

\* step 2 and commitTransaction: the subscription write and the debit commit
Plan_Commit(p) ==
  /\ pl[p].pc = "commit"
  /\ LET price == PlanPrice(pl[p].plan)
     IN /\ balance' = balance - price
        /\ IF price > 0
           THEN /\ walletLock' = NoOwner
                /\ WalletChanged(<<"plan", p>>)
                /\ planDebits' = planDebits + 1
           ELSE UNCHANGED <<walletLock, dirtyW, planDebits>>
  /\ pl' = [pl EXCEPT ![p].pc = "succeeded"]
  /\ UNCHANGED <<wtx, idemRec, day, keyPool>>

\* ------------------- cash-in credit: processWebhook / checkPaymentStatus
CashInAmounts == {10000}

\* createCashIn: fee = Math.round(amount * 0.015)
CashInFee(amount) == (amount * 15 + 500) \div 1000

PaymentChanged(by) == dirtyP' = (dirtyP \cup OpenCredits) \ {by}

\* `if (payment.type === "cash_in" && !payment.walletCredited)` and the guard
\* at the top of processCashInSuccess, both on the caller's loaded document
CreditNeeded(memCredited) == ~memCredited

\* where the call continues after its status handling
AfterStatus(memCredited) == IF CreditNeeded(memCredited) THEN "txn_wt" ELSE "final"

\* Payment.findOne({ paymentIntentId }) / findById: the caller's own copy of
\* the document; checkPaymentStatus then maps the gateway status (succeeded)
\* and does nothing when the stored status already equals it
Cash_Load(t, kind) ==
  /\ ct[t].pc = "idle"
  /\ InOrder(ct, t)
  /\ ct' = [ct EXCEPT ![t] =
        [pc |-> IF kind = "webhook" THEN "mark"
                ELSE IF cashPay.status # "succeeded" THEN AfterStatus(cashPay.walletCredited)
                ELSE "done",
         kind |-> kind,
         memCredited |-> cashPay.walletCredited,
         result |-> IF kind = "poll" /\ cashPay.status = "succeeded" THEN "unchanged" ELSE "none"]]
  /\ UNCHANGED <<walletVars, cashPay, payLock, dirtyP>>

\* processWebhook, payment.paid: markAsSucceeded() saves status, isFinal, paidAt
Cash_Mark(t) ==
  /\ ct[t].pc = "mark"
  /\ payLock = NoOwner
  /\ cashPay' = [cashPay EXCEPT !.status = "succeeded"]
  /\ PaymentChanged(NoOwner)
  /\ ct' = [ct EXCEPT ![t].pc = AfterStatus(ct[t].memCredited)]
  /\ UNCHANGED <<walletVars, payLock>>

\* the catch block of processCashInSuccess: abortTransaction; the caller logs
\* the error and goes on
CashAbort(t, memCredited) ==
  /\ ct' = [ct EXCEPT ![t].pc = "final", ![t].memCredited = memCredited, ![t].result = "WriteConflict"]
  /\ walletLock' = IF walletLock = <<"cashin", t>> THEN NoOwner ELSE walletLock
  /\ payLock' = IF payLock = <<"cashin", t>> THEN NoOwner ELSE payLock
  /\ dirtyW' = dirtyW \ {<<"cashin", t>>}
  /\ dirtyP' = dirtyP \ {<<"cashin", t>>}
  /\ UNCHANGED <<balance, wtx, cashPay>>

\* startTransaction, getOrCreateForUser (outside the session) and
\* WalletTransaction.create in the session: the transaction's snapshot
Cash_CreateWT(t) ==
  /\ ct[t].pc = "txn_wt"
  /\ ct' = [ct EXCEPT ![t].pc = "txn_wallet"]
  /\ UNCHANGED <<walletVars, cashPay, payLock, dirtyP>>

\* VendorWallet.findOneAndUpdate({ _id }, { $inc: { balance: amountPhp } }) in the session
Cash_IncWallet(t) ==
  /\ ct[t].pc = "txn_wallet"
  /\ IF walletLock # NoOwner \/ <<"cashin", t>> \in dirtyW
     THEN CashAbort(t, ct[t].memCredited)
     ELSE /\ walletLock' = <<"cashin", t>>
          /\ ct' = [ct EXCEPT ![t].pc = "txn_pay"]
          /\ UNCHANGED <<balance, dirtyW, wtx, cashPay, payLock, dirtyP>>

\* payment.walletCredited = true; payment.save({ session })
Cash_SavePayment(t) ==
  /\ ct[t].pc = "txn_pay"
  /\ IF payLock # NoOwner \/ <<"cashin", t>> \in dirtyP
     THEN CashAbort(t, TRUE)
     ELSE /\ payLock' = <<"cashin", t>>
          /\ ct' = [ct EXCEPT ![t].pc = "txn_commit", ![t].memCredited = TRUE]
          /\ UNCHANGED <<walletVars, cashPay, dirtyP>>

\* commitTransaction: the WalletTransaction row, the credit and the flag
\* become visible together
Cash_Commit(t) ==
  /\ ct[t].pc = "txn_commit"
  /\ balance' = balance + cashPay.netAmount
  /\ wtx' = wtx \cup {[type |-> "credit", amount |-> cashPay.netAmount, refType |-> "topup", by |-> <<"cashin", t>>]}
  /\ cashPay' = [cashPay EXCEPT !.walletCredited = TRUE]
  /\ walletLock' = NoOwner
  /\ payLock' = NoOwner
  /\ WalletChanged(<<"cashin", t>>)
  /\ PaymentChanged(<<"cashin", t>>)
  /\ ct' = [ct EXCEPT ![t].pc = "final", ![t].result = "credited"]

\* the end of the call: checkPaymentStatus saves its copy of the document
\* (payment.save() writes the paths modified on the copy: the status, and
\* walletCredited when the copy set it); processWebhook writes nothing more
Cash_Final(t) ==
  /\ ct[t].pc = "final"
  /\ IF ct[t].kind = "poll"
     THEN /\ payLock = NoOwner
          /\ cashPay' = [cashPay EXCEPT !.status = "succeeded",
                                        !.walletCredited = cashPay.walletCredited \/ ct[t].memCredited]
          /\ PaymentChanged(NoOwner)
     ELSE UNCHANGED <<cashPay, dirtyP>>
  /\ ct' = [ct EXCEPT ![t].pc = "done",
                      ![t].result = IF ct[t].result = "none" THEN "skipped" ELSE ct[t].result]
  /\ UNCHANGED <<walletVars, payLock>>

\* ------------------------------------------------------------ createCashIn
CashInKeys == {NoKey, "c1"}
NoCashRow == [status |-> "none", key |-> <<NoKey, 0>>, intent |-> FALSE]

\* the key of the row: the caller's key, or a fresh random UUID
CashInKey(c, rawKey) == IF rawKey # NoKey THEN <<rawKey, 0>> ELSE <<"uuid", c>>

\* Payment.findOne({ userId, type: "cash_in", idempotencyKey: key })
CashInRowsWithKey(key) == {x \in CashCalls : cashRows[x].status # "none" /\ cashRows[x].key = key}

UniqueKeyViolated_NoIndex(key) == FALSE

\* the unique index { userId, idempotencyKey } (string keys), over all types
UniqueKeyViolated(key) == CashInRowsWithKey(key) # {} \/ key \in foreignKeys

\* the row was left behind by an attempt that ended without a payment intent
LeftBehind(x) == ~cashRows[x].intent /\ cc[x].pc = "done"

\* validation is passed; the pre-query returns the existing row of the key
CC_PreQuery(c, rawKey) ==
  /\ cc[c].pc = "idle"
  /\ InOrder(cc, c)
  /\ LET key == CashInKey(c, rawKey)
         existing == CashInRowsWithKey(key)
     IN IF existing # {}
        THEN cc' = [cc EXCEPT ![c] = [pc |-> "done", key |-> key, result |-> "existing",
                                    returned |-> CHOOSE x \in existing : TRUE,
                                    retry |-> LeftBehind(CHOOSE x \in existing : TRUE)]]
        ELSE cc' = [cc EXCEPT ![c] = [pc |-> "save", key |-> key, result |-> "none", returned |-> 0, retry |-> FALSE]]
  /\ UNCHANGED <<cashRows, foreignKeys>>

\* basePayment.save() with status "processing"; on E11000 the row of the key
\* is looked up again and returned, and the error rethrown if there is none
CC_Save(c) ==
  /\ cc[c].pc = "save"
  /\ IF UniqueKeyViolated(cc[c].key)
     THEN LET dup == CashInRowsWithKey(cc[c].key)
          IN /\ IF dup # {}
                THEN cc' = [cc EXCEPT ![c].pc = "done", ![c].result = "duplicate",
                                      ![c].returned = CHOOSE x \in dup : TRUE,
                                      ![c].retry = LeftBehind(CHOOSE x \in dup : TRUE)]
                ELSE cc' = [cc EXCEPT ![c].pc = "done", ![c].result = "E11000"]
             /\ UNCHANGED cashRows
     ELSE /\ cashRows' = [cashRows EXCEPT ![c] = [status |-> "processing", key |-> cc[c].key, intent |-> FALSE]]
          /\ cc' = [cc EXCEPT ![c].pc = "gateway"]
  /\ UNCHANGED foreignKeys

\* createPaymentIntent, createPaymentMethod, attachPaymentMethod, then the
\* second save; a gateway error leaves the row as first saved
CC_Gateway(c, ok) ==
  /\ cc[c].pc = "gateway"
  /\ IF ok
     THEN /\ cashRows' = [cashRows EXCEPT ![c].status = "awaiting_payment", ![c].intent = TRUE]
          /\ cc' = [cc EXCEPT ![c].pc = "done", ![c].result = "created", ![c].returned = c]
     ELSE /\ cc' = [cc EXCEPT ![c].pc = "done", ![c].result = "ExternalServiceError"]
          /\ UNCHANGED cashRows
  /\ UNCHANGED foreignKeys

\* ------------------------------------------------- createOrdersFromPayment
TickMinutes == StaleMinutes \div 2 + 1
VendorGroups == {<<>>, <<"v1">>, <<"v1", "v2">>}

\* payment.save() at the end of checkPaymentStatus when the status changed
PollSave(doc, t) ==
  IF mt[t].kind = "poll" /\ mt[t].saveAfter
  THEN [doc EXCEPT !.status = "succeeded", !.updatedAt = clock]
  ELSE doc

MatEnd(t, res) == mt' = [mt EXCEPT ![t] = [pc |-> "done", kind |-> mt[t].kind, saveAfter |-> FALSE,
                                           created |-> {}, next |-> 1, result |-> res, returned |-> 0 - 1]]

\* createOrdersFromPayment returns a list of n order ids
MatReturn(t, n) == mt' = [mt EXCEPT ![t] = [pc |-> "done", kind |-> mt[t].kind, saveAfter |-> FALSE,
                                            created |-> {}, next |-> 1, result |-> "orderIds", returned |-> n]]

\* the caller loads the payment and decides on its copy whether to materialize
Mat_Load(t, kind) ==
  /\ mt[t].pc = "idle"
  /\ InOrder(mt, t)
  /\ LET call == [mt[t] EXCEPT !.kind = kind]
     IN CASE kind = "webhook" ->
               mt' = [mt EXCEPT ![t] = [call EXCEPT !.pc = IF coPay.ordersCreated THEN "markonly" ELSE "mark"]]
          [] kind = "poll" ->
               IF coPay.status # "succeeded"
               THEN mt' = [mt EXCEPT ![t] = [call EXCEPT !.pc = IF coPay.ordersCreated THEN "pollsave" ELSE "fresh",
                                                         !.saveAfter = TRUE]]
               ELSE IF ~coPay.ordersCreated
               THEN mt' = [mt EXCEPT ![t] = [call EXCEPT !.pc = "fresh"]]
               ELSE mt' = [mt EXCEPT ![t] = [call EXCEPT !.pc = "done", !.result = "unchanged"]]
          [] kind = "recover" ->
               IF coPay.status # "succeeded"
               THEN mt' = [mt EXCEPT ![t] = [call EXCEPT !.pc = "done", !.result = "ValidationError"]]
               ELSE IF coPay.ordersCreated
               THEN mt' = [mt EXCEPT ![t] = [call EXCEPT !.pc = "done", !.result = "ConflictError"]]
               ELSE mt' = [mt EXCEPT ![t] = [call EXCEPT !.pc = "fresh"]]
  /\ UNCHANGED <<coPay, orders, clock>>

\* processWebhook, payment.paid: markAsSucceeded() saves the status
Mat_Mark(t) ==
  /\ mt[t].pc \in {"mark", "markonly"}
  /\ coPay' = [coPay EXCEPT !.status = "succeeded", !.updatedAt = clock]
  /\ IF mt[t].pc = "mark"
     THEN mt' = [mt EXCEPT ![t].pc = "fresh"]
     ELSE MatEnd(t, "unchanged")
  /\ UNCHANGED <<orders, clock>>

\* checkPaymentStatus with a status change and orders already created
Mat_PollSave(t) ==
  /\ mt[t].pc = "pollsave"
  /\ coPay' = PollSave(coPay, t)
  /\ MatEnd(t, "unchanged")
  /\ UNCHANGED <<orders, clock>>

\* Payment.findById: orders already created => return the stored orderIds
Mat_Fresh(t) ==
  /\ mt[t].pc = "fresh"
  /\ IF coPay.ordersCreated
     THEN /\ MatReturn(t, Cardinality(coPay.orderIds))
          /\ coPay' = PollSave(coPay, t)
     ELSE /\ mt' = [mt EXCEPT ![t].pc = "claim"]
          /\ UNCHANGED coPay
  /\ UNCHANGED <<orders, clock>>

\* filter of the claim: ordersCreated false and (no in-progress marker or
\* updatedAt older than the stale cutoff)
ClaimFilter(doc, t) ==
  /\ ~doc.ordersCreated
  /\ (doc.orderCreationError # "in_progress" \/ doc.updatedAt < t - StaleMinutes)

\* Payment.updateOne(filter, { $set: { orderCreationError: "in_progress" } });
\* the winner goes on to the checkout data, which may hold no vendor group
Mat_Claim(t) ==
  /\ mt[t].pc = "claim"
  /\ IF ClaimFilter(coPay, clock)
     THEN /\ coPay' = [coPay EXCEPT !.orderCreationError = "in_progress", !.updatedAt = clock]
          /\ mt' = [mt EXCEPT ![t].pc = IF coPay.groups = <<>> THEN "catch" ELSE "save"]
     ELSE /\ mt' = [mt EXCEPT ![t].pc = "lost"]
          /\ UNCHANGED coPay
  /\ UNCHANGED <<orders, clock>>

\* the loser reads the stored orderIds and returns them
Mat_Lost(t) ==
  /\ mt[t].pc = "lost"
  /\ MatReturn(t, Cardinality(coPay.orderIds))
  /\ coPay' = PollSave(coPay, t)
  /\ UNCHANGED <<orders, clock>>

AfterOrderError_Rethrow(last) == "catch"

\* catch (orderError) inside the loop: the error is logged, the loop goes on
AfterOrderError(last) == IF last THEN "finish" ELSE "save"

\* one vendor group: new Order(...).save(); a failure is logged and skipped
Mat_SaveOrder(t, ok) ==
  /\ mt[t].pc = "save"
  /\ LET v == coPay.groups[mt[t].next]
         id == <<t, v>>
         last == mt[t].next = Len(coPay.groups)
     IN /\ orders' = IF ok THEN orders \cup {[id |-> id, vendor |-> v]} ELSE orders
        /\ mt' = [mt EXCEPT ![t].created = IF ok THEN @ \cup {id} ELSE @,
                            ![t].next = @ + 1,
                            ![t].pc = IF ok THEN (IF last THEN "finish" ELSE "save") ELSE AfterOrderError(last)]
  /\ UNCHANGED <<coPay, clock>>

\* after the loop: mark the payment, or record the error and throw
Mat_Finish(t) ==
  /\ mt[t].pc = "finish"
  /\ IF mt[t].created # {}
     THEN /\ coPay' = PollSave([coPay EXCEPT !.orderIds = mt[t].created, !.ordersCreated = TRUE,
                                            !.orderCreationError = "null", !.updatedAt = clock], t)
          /\ MatReturn(t, Cardinality(mt[t].created))
     ELSE /\ coPay' = [coPay EXCEPT !.orderCreationError = "failed", !.updatedAt = clock]
          /\ mt' = [mt EXCEPT ![t].pc = "catch"]
  /\ UNCHANGED <<orders, clock>>

ErrorRecorded_MarkerKept(doc, message, at) == doc

\* Payment.findByIdAndUpdate(_id, { orderCreationError: error.message, ordersCreated: false })
ErrorRecorded(doc, message, at) ==
  [doc EXCEPT !.orderCreationError = message, !.ordersCreated = FALSE, !.updatedAt = at]

\* the catch block: findByIdAndUpdate({ orderCreationError: error.message,
\* ordersCreated: false }) and rethrow; the callers log the error
Mat_Catch(t) ==
  /\ mt[t].pc = "catch"
  /\ coPay' = PollSave(ErrorRecorded(coPay, "failed", clock), t)
  /\ MatEnd(t, "Error")
  /\ UNCHANGED <<orders, clock>>

Tick ==
  /\ clock + TickMinutes <= MaxClock
  /\ clock' = clock + TickMinutes
  /\ UNCHANGED <<coPay, orders, mt>>

\* Date.now() - updatedAt grows by TickMinutes: time is kept relative to the
\* present, and ages beyond the stale cutoff are not told apart
Oldest == 0 - (StaleMinutes + TickMinutes)

TimePasses ==
  /\ coPay.updatedAt > clock + Oldest
  /\ coPay' = [coPay EXCEPT !.updatedAt = IF @ - TickMinutes >= clock + Oldest THEN @ - TickMinutes ELSE clock + Oldest]
  /\ UNCHANGED <<orders, mt, clock>>

\* the process of a claim winner dies after the in-progress marker is set
Mat_Crash(t) ==
  /\ mt[t].pc \in {"save", "finish", "catch"}
  /\ \A u \in MatCalls : mt[u].pc # "crashed"
  /\ mt' = [mt EXCEPT ![t].pc = "crashed"]
  /\ UNCHANGED <<coPay, orders, clock>>

\* the payment is triggered again: webhook delivery, status poll or recovery
Mat_Again(t) ==
  /\ mt[t].pc = "done"
  /\ mt' = [mt EXCEPT ![t] = [pc |-> "idle", kind |-> "webhook", saveAfter |-> FALSE,
                              created |-> {}, next |-> 1, result |-> "none", returned |-> 0 - 1]]
  /\ UNCHANGED <<coPay, orders, clock>>

\* ---------------------------------- gateway reconciliation of one payment
GatewayStatuses == {"awaiting_payment_method", "awaiting_next_action", "processing",
                    "succeeded", "failed", "cancelled"}
WebhookEvents == {"payment.paid", "payment.failed", "payment.refunded", "source.chargeable"}
RefundKinds == {"full", "partial"}

\* statusMap[gatewayStatus] || payment.status
statusMap(gatewayStatus, current) ==
  CASE gatewayStatus = "awaiting_payment_method" -> "awaiting_payment"
    [] gatewayStatus \in {"awaiting_next_action", "processing"} -> "processing"
    [] gatewayStatus = "succeeded" -> "succeeded"
    [] gatewayStatus = "failed" -> "failed"
    [] OTHER -> current

\* the status a webhook event stands for
EventStatus(eventType, current) ==
  CASE eventType = "payment.paid" -> "succeeded"
    [] eventType = "payment.failed" -> "failed"
    [] eventType = "payment.refunded" -> "refunded"
    [] OTHER -> current

\* the downstream branch taken on the caller's copy of a succeeded payment:
\* checkout with checkoutData and no orders yet, or cash-in not yet credited
DownstreamDue(doc) ==
  \/ doc.type = "checkout" /\ ~doc.ordersCreated
  \/ doc.type = "cash_in" /\ ~doc.walletCredited

RecEnd(t, res) == rc' = [rc EXCEPT ![t].pc = "done", ![t].result = res]

\* the caller loads the payment; checkPaymentStatus compares the mapped
\* gateway status with the stored one, processWebhook switches on the event
\* type, createRefund requires a succeeded checkout payment
Rec_Load(t, kind, input) ==
  /\ rc[t].pc = "idle"
  /\ InOrder(rc, t)
  /\ LET call == [rc[t] EXCEPT !.kind = kind, !.input = input, !.loaded = gwPay.status,
                                !.final = gwPay.isFinal, !.due = DownstreamDue(gwPay)]
     IN CASE kind = "poll" ->
               LET newStatus == statusMap(input, gwPay.status)
               IN IF newStatus # gwPay.status
                  THEN rc' = [rc EXCEPT ![t] = [call EXCEPT !.mapped = newStatus,
                                 !.pc = IF newStatus = "succeeded" /\ DownstreamDue(gwPay) THEN "downstream" ELSE "save"]]
                  ELSE IF gwPay.status = "succeeded" /\ gwPay.type = "checkout" /\ ~gwPay.ordersCreated
                  THEN rc' = [rc EXCEPT ![t] = [call EXCEPT !.mapped = newStatus, !.pc = "retry"]]
                  ELSE rc' = [rc EXCEPT ![t] = [call EXCEPT !.mapped = newStatus, !.pc = "done", !.result = "unchanged"]]
          [] kind = "webhook" ->
               IF input \in {"payment.paid", "payment.failed", "payment.refunded"}
               THEN rc' = [rc EXCEPT ![t] = [call EXCEPT !.mapped = EventStatus(input, gwPay.status), !.pc = "mark"]]
               ELSE rc' = [rc EXCEPT ![t] = [call EXCEPT !.mapped = gwPay.status, !.pc = "done", !.result = "unhandled"]]
          [] kind = "refund" ->
               IF gwPay.status # "succeeded" \/ gwPay.type # "checkout"
               THEN rc' = [rc EXCEPT ![t] = [call EXCEPT !.mapped = gwPay.status, !.pc = "done", !.result = "ValidationError"]]
               ELSE rc' = [rc EXCEPT ![t] = [call EXCEPT !.pc = "save",
                              !.mapped = IF input = "full" THEN "refunded" ELSE "partially_refunded"]]
  /\ UNCHANGED <<gwPay, rcClock, triggers>>

\* what a save of the caller's copy writes for the status it set
Written(doc, status, at) ==
  CASE status = "succeeded" -> [doc EXCEPT !.status = status, !.isFinal = TRUE, !.paidAt = at]
    [] status = "failed" -> [doc EXCEPT !.status = status, !.isFinal = TRUE, !.failureReason = "gateway"]
    [] OTHER -> [doc EXCEPT !.status = status]

\* processWebhook: markAsSucceeded / markAsFailed / markAsRefunded set the
\* status, isFinal and their timestamp on the copy and save it
Rec_Mark(t) ==
  /\ rc[t].pc = "mark"
  /\ gwPay' = [Written(gwPay, rc[t].mapped, rcClock) EXCEPT !.isFinal = TRUE]
  /\ IF rc[t].input = "payment.paid" /\ rc[t].due
     THEN rc' = [rc EXCEPT ![t].pc = "downstream"]
     ELSE RecEnd(t, "ok")
  /\ UNCHANGED <<rcClock, triggers>>

\* createOrdersFromPayment (which reads the payment again and returns the
\* stored orders if they exist) or processCashInSuccess (which goes by the
\* caller's copy); the callers log a failure and go on
Rec_Downstream(t, ok) ==
  /\ rc[t].pc \in {"downstream", "retry"}
  /\ IF gwPay.type = "checkout" /\ gwPay.ordersCreated
     THEN UNCHANGED <<gwPay, triggers>>
     ELSE /\ triggers' = triggers + 1
          /\ gwPay' = IF ~ok THEN gwPay
                      ELSE IF gwPay.type = "checkout" THEN [gwPay EXCEPT !.ordersCreated = TRUE]
                      ELSE [gwPay EXCEPT !.walletCredited = TRUE]
  /\ IF rc[t].kind = "poll" /\ rc[t].pc = "downstream"
     THEN rc' = [rc EXCEPT ![t].pc = "save"]
     ELSE RecEnd(t, "ok")
  /\ UNCHANGED rcClock

\* payment.save() at the end of checkPaymentStatus after a status change,
\* originalPayment.save() of createRefund
Rec_Save(t) ==
  /\ rc[t].pc = "save"
  /\ gwPay' = Written(gwPay, rc[t].mapped, rcClock)
  /\ RecEnd(t, "ok")
  /\ UNCHANGED <<rcClock, triggers>>

Rec_Tick ==
  /\ rcClock < MaxRecClock
  /\ rcClock' = rcClock + 1
  /\ UNCHANGED <<gwPay, rc, triggers>>

\* ============================================================ ledger
\* ------------------------------------------- wallet arithmetic in pesos
\* The wallet holds pesos as a Number: amounts are divided by 100 and added
\* with binary floating point, round to nearest, ties to even.  The format of
\* the code is binary64 (53 significant bits); the significand is narrowed
\* here, the rounding rule is the same.  A double is [m, e], value m * 2^e,
\* with 2^(MantissaBits - 1) <= m < 2^MantissaBits, or m = 0.
MantissaBits == 53 - 41

RoundTripBalances == {10000, 15000, 20000, 22816, 22833, 25050, 30000, 30075, 32829, 35000, 40000}
RoundTripAmounts == {5000, 10000, 10008, 10027, 15000, 20050}

Zero == [m |-> 0, e |-> 0]

RECURSIVE BitLength(_)
BitLength(n) == IF n = 0 THEN 0 ELSE 1 + BitLength(n \div 2)

\* the double nearest to n * 2^e
RoundToDouble(n, e) ==
  IF n = 0 THEN Zero
  ELSE LET len == BitLength(n)
       IN IF len <= MantissaBits
          THEN [m |-> n * 2^(MantissaBits - len), e |-> e - (MantissaBits - len)]
          ELSE LET s == len - MantissaBits
                   q == n \div 2^s
                   r == n % 2^s
                   half == 2^(s - 1)
                   q2 == IF r > half \/ (r = half /\ q % 2 = 1) THEN q + 1 ELSE q
               IN IF q2 = 2^MantissaBits
                  THEN [m |-> 2^(MantissaBits - 1), e |-> e + s + 1]
                  ELSE [m |-> q2, e |-> e + s]

RECURSIVE ScaleFor(_, _)
ScaleFor(c, k) ==
  IF (c * 2^k) \div 100 >= 2^(MantissaBits - 1) THEN k ELSE ScaleFor(c, k + 1)

\* Number(amount) / 100: the double nearest to the quotient
DivideBy100(c) ==
  IF c = 0 THEN Zero
  ELSE LET k == ScaleFor(c, 0)
           q == (c * 2^k) \div 100
           r == (c * 2^k) % 100
           q2 == IF 2 * r > 100 \/ (2 * r = 100 /\ q % 2 = 1) THEN q + 1 ELSE q
       IN IF q2 = 2^MantissaBits
          THEN [m |-> 2^(MantissaBits - 1), e |-> 1 - k]
          ELSE [m |-> q2, e |-> 0 - k]

MinExp(a, b) == IF a.e < b.e THEN a.e ELSE b.e
Aligned(a, b) == a.m * 2^(a.e - MinExp(a, b))

FloatAdd(a, b) ==
  IF a.m = 0 THEN b
  ELSE IF b.m = 0 THEN a
  ELSE RoundToDouble(Aligned(a, b) + Aligned(b, a), MinExp(a, b))

\* a - b for a >= b
FloatSub(a, b) ==
  IF b.m = 0 THEN a
  ELSE RoundToDouble(Aligned(a, b) - Aligned(b, a), MinExp(a, b))

FloatLess(a, b) ==
  IF b.m = 0 THEN FALSE
  ELSE IF a.m = 0 THEN TRUE
  ELSE Aligned(a, b) < Aligned(b, a)

\* createWithdrawal of one vendor with no other call in flight: the balance
\* check, Payment.create, and the conditional debit of amountPhp
RT_CreateWithdrawal(amount) ==
  /\ rt.pc = "idle"
  /\ LET amountPhp == DivideBy100(amount)
     IN IF amount < MinWithdrawal
        THEN rt' = [rt EXCEPT !.pc = "done", !.result = "ValidationError: minimum amount"] /\ UNCHANGED stored
        ELSE IF FloatLess(stored, amountPhp)
        THEN rt' = [rt EXCEPT !.pc = "done", !.result = "ValidationError: insufficient balance"] /\ UNCHANGED stored
        ELSE /\ stored' = FloatSub(stored, amountPhp)
             /\ rt' = [rt EXCEPT !.pc = "pending", !.amount = amount, !.before = stored]

\* rejectWithdrawal of that pending withdrawal: status rejected, then the
\* unconditional $inc of Number(payment.amount) / 100
RT_RejectWithdrawal ==
  /\ rt.pc = "pending"
  /\ stored' = FloatAdd(stored, DivideBy100(rt.amount))
  /\ rt' = [rt EXCEPT !.pc = "rejected", !.result = "ok"]

NoRow == [status |-> "none", amount |-> 0, key |-> <<NoKey, 0>>, debited |-> FALSE,
          isFinal |-> FALSE, credits |-> 0]
IdleCall == [pc |-> "idle", key |-> NoKey, plan |-> "free", at |-> 0, result |-> "none",
             response |-> <<"none", "none">>]

Slot(on, idle) == IF on THEN idle ELSE [idle EXCEPT !.pc = "off"]

\* a wallet funded by one earlier cash-in, a pending commission, no
\* withdrawal yet; nW, nA, nR, nP calls of each kind may be made
LedgerInitFrom(balances, nW, nA, nR, nP, keys) ==
  /\ balance \in (IF nW + nA + nR + nP = 0 THEN {0} ELSE balances)
  /\ wtx = {[type |-> "credit", amount |-> balance, refType |-> "topup", by |-> <<"seed", 0>>]}
  /\ walletLock = NoOwner
  /\ dirtyW = {}
  /\ strictQuery \in (IF nW = 0 THEN {FALSE} ELSE BOOLEAN)
  /\ payRows = [w \in Withdrawals |-> NoRow]
  /\ cw = [w \in Withdrawals |-> Slot(w <= nW, [pc |-> "idle", amount |-> 0, rawKey |-> NoKey, result |-> "none"])]
  /\ adm = [a \in AdminOps |-> Slot(a <= nA, [pc |-> "idle", kind |-> "approve", target |-> 1, status |-> "none", loaded |-> "none", result |-> "none"])]
  /\ \E amt \in CommissionAmounts :
       comm = [status |-> "pending", hasKey |-> FALSE, amount |-> amt, remits |-> 0, admin |-> 0]
  /\ commLock = NoOwner
  /\ dirtyC = {}
  /\ rm = [r \in Remits |-> Slot(r <= nR, [pc |-> "idle", snapHasKey |-> FALSE, snapBal |-> 0, result |-> "none"])]
  /\ cb = [failures |-> 0, lastFailure |-> 0, isOpen |-> FALSE]
  /\ now = 0
  /\ pl = [p \in PlanCalls |-> Slot(p <= nP, IdleCall)]
  /\ idemRec = [k \in IdemKeys |-> NoRecord]
  /\ day = 0
  /\ keyPool = keys
  /\ planDebits = 0

LedgerInit(nW, nA, nR, nP, keys) == LedgerInitFrom(InitBalances, nW, nA, nR, nP, keys)

\* a cash-in Payment awaiting payment, which the gateway reports as paid;
\* nT webhook deliveries / status polls may be made for it
PaymentsInit(nT, nC, nM) ==
  /\ \E amount \in CashInAmounts :
       cashPay = [status |-> "awaiting_payment", walletCredited |-> FALSE,
                  netAmount |-> amount - CashInFee(amount)]
  /\ payLock = NoOwner
  /\ dirtyP = {}
  /\ ct = [t \in Triggers |-> Slot(t <= nT, [pc |-> "idle", kind |-> "webhook", memCredited |-> FALSE, result |-> "none"])]
  /\ cashRows = [c \in CashCalls |-> NoCashRow]
  /\ foreignKeys \in (IF nC = 0 THEN {{}} ELSE SUBSET {<<"c1", 0>>})
  /\ cc = [c \in CashCalls |-> Slot(c <= nC, [pc |-> "idle", key |-> <<NoKey, 0>>, result |-> "none", returned |-> 0, retry |-> FALSE])]
  /\ \E g \in (IF nM = 0 THEN {<<>>} ELSE VendorGroups), st \in (IF nM = 0 THEN {"succeeded"} ELSE {"awaiting_payment", "succeeded"}) :
       coPay = [status |-> st, groups |-> g, ordersCreated |-> FALSE,
                orderCreationError |-> "null", orderIds |-> {}, updatedAt |-> 0]
  /\ orders = {}
  /\ mt = [t \in MatCalls |-> Slot(t <= nM, [pc |-> "idle", kind |-> "webhook", saveAfter |-> FALSE,
                                            created |-> {}, next |-> 1, result |-> "none", returned |-> 0 - 1])]
  /\ clock = 0

\* ------------------------------ Payment creators and the pre("save") hook
MaxDocs == 2
CreateAmounts == {0, 2000, 10050}
Docs == 1..MaxDocs

\* Math.round(amount * 0.025) and Math.round(amount * 0.01), on centavos
QRPHFee(amount) == (amount * 25 + 500) \div 1000
WithdrawFee(amount) == (amount * 10 + 500) \div 1000
Max(a, b) == IF a >= b THEN a ELSE b

PreSave_NoHook(doc, modified) == doc

\* PaymentSchema.pre("save"): `modified` is the set of paths isModified() reports
PreSave(doc, modified) ==
  IF "amount" \in modified \/ "fee" \in modified
  THEN [doc EXCEPT !.netAmount = doc.amount - doc.fee]
  ELSE doc

\* every path a constructor sets is modified on a new document
NewPaths == {"type", "amount", "fee", "netAmount", "status"}

NewPayment(type, amount, fee, netAmount, status, orig) ==
  [type |-> type, amount |-> amount, fee |-> fee, netAmount |-> netAmount, status |-> status, orig |-> orig]

CrIdle == cr.pc \in {"idle", "done"} /\ Len(docs) < MaxDocs
CrDone(kind, amount, intents, res) ==
  cr' = [pc |-> "done", kind |-> kind, amount |-> amount, intents |-> intents, result |-> res]

\* createCheckoutPayment up to the gateway call
CCP_Check(amount, orderFound, paid) ==
  /\ CrIdle
  /\ IF amount < 0
     THEN CrDone("checkout", amount, 0, "ValidationError")
     ELSE IF amount > 0 /\ ~orderFound
     THEN CrDone("checkout", amount, 0, "NotFoundError")
     ELSE IF paid
     THEN CrDone("checkout", amount, 0, "ConflictError")
     ELSE cr' = [pc |-> "intent", kind |-> "checkout", amount |-> amount, intents |-> 0, result |-> "none"]
  /\ UNCHANGED docs

\* paymongoClient.createPaymentIntent, then new Payment(...).save()
CCP_Intent(ok) ==
  /\ cr.pc = "intent"
  /\ IF ok
     THEN /\ docs' = Append(docs, PreSave(NewPayment("checkout", cr.amount, 0, cr.amount, "awaiting_payment", 0), NewPaths))
          /\ CrDone("checkout", cr.amount, cr.intents + 1, "created")
     ELSE /\ CrDone("checkout", cr.amount, cr.intents + 1, "GatewayError")
          /\ UNCHANGED docs

\* createQRPHPayment
CreateQRPH(amount, ok) ==
  /\ CrIdle
  /\ IF amount < 0
     THEN CrDone("qrph", amount, 0, "ValidationError") /\ UNCHANGED docs
     ELSE IF ~ok
     THEN CrDone("qrph", amount, 1, "GatewayError") /\ UNCHANGED docs
     ELSE /\ docs' = Append(docs, PreSave(NewPayment("checkout", amount, amount, amount - QRPHFee(amount),
                                                     "awaiting_payment", 0), NewPaths))
          /\ CrDone("qrph", amount, 1, "created")

\* createSubscriptionQRPHPayment
CreateSubscriptionQRPH(amount, ok) ==
  /\ CrIdle
  /\ IF amount <= 0
     THEN CrDone("subscription", amount, 0, "ValidationError") /\ UNCHANGED docs
     ELSE IF ~ok
     THEN CrDone("subscription", amount, 1, "GatewayError") /\ UNCHANGED docs
     ELSE /\ docs' = Append(docs, PreSave(NewPayment("subscription", amount, amount, amount - QRPHFee(amount),
                                                     "awaiting_payment", 0), NewPaths))
          /\ CrDone("subscription", amount, 1, "created")

\* createCashIn: the row is saved before the gateway is called
CreateCashInRow(amount) ==
  /\ CrIdle
  /\ IF amount < 100 \/ amount > 10000000
     THEN CrDone("cash_in", amount, 0, "ValidationError") /\ UNCHANGED docs
     ELSE /\ docs' = Append(docs, PreSave(NewPayment("cash_in", amount, CashInFee(amount), amount - CashInFee(amount),
                                                     "processing", 0), NewPaths))
          /\ CrDone("cash_in", amount, 1, "created")

\* createWithdrawal: Payment.create runs the save hooks
CreateWithdrawRow(amount, funded) ==
  /\ CrIdle
  /\ IF amount = 0 \/ amount < MinWithdrawal \/ ~funded
     THEN CrDone("withdraw", amount, 0, "ValidationError") /\ UNCHANGED docs
     ELSE /\ docs' = Append(docs, PreSave(NewPayment("withdraw", amount, WithdrawFee(amount),
                                                     Max(0, amount - WithdrawFee(amount)), "pending", 0), NewPaths))
          /\ CrDone("withdraw", amount, 0, "created")

\* createRefund: the refund row, then the original's status
CreateRefundRow(d, amount, ok) ==
  LET refundAmount == IF amount = 0 THEN docs[d].amount ELSE amount
      existingRefunds == {i \in DOMAIN docs : docs[i].type = "refund" /\ docs[i].orig = d
                                               /\ docs[i].status \in {"succeeded", "processing"}}
      totalRefunded == SumAmounts({[id |-> i, amount |-> docs[i].amount] : i \in existingRefunds})
  IN  /\ CrIdle
      /\ d \in DOMAIN docs
      /\ IF docs[d].status # "succeeded" \/ docs[d].type # "checkout" \/ refundAmount > docs[d].amount
            \/ totalRefunded + refundAmount > docs[d].amount
         THEN CrDone("refund", amount, 0, "ValidationError") /\ UNCHANGED docs
         ELSE IF ~ok
         THEN CrDone("refund", amount, 0, "GatewayError") /\ UNCHANGED docs
         ELSE /\ docs' = Append([docs EXCEPT ![d] = PreSave([@ EXCEPT !.status =
                                   IF totalRefunded + refundAmount >= docs[d].amount THEN "refunded"
                                   ELSE "partially_refunded"], {"status"})],
                                PreSave(NewPayment("refund", refundAmount, 0, refundAmount, "processing", d), NewPaths))
              /\ CrDone("refund", amount, 0, "created")

\* markAsSucceeded / markAsFailed: a later save of an existing document
MarkDoc(d, status) ==
  /\ d \in DOMAIN docs
  /\ docs[d].status \in {"awaiting_payment", "processing", "pending"}
  /\ docs' = [docs EXCEPT ![d] = PreSave([@ EXCEPT !.status = status], {"status"})]
  /\ UNCHANGED cr

\* ------------------------------------------------------- sendWithRetries
maxAttempts == 3
InitialDelay == 500
MailErrors == {"ETIMEDOUT", "ECONNRESET", "EAUTH"}
Mails == {"sendVerificationEmail", "sendSellerWelcomeEmail"}

LastErr_KeepFirst(lastErr, err) == IF lastErr = "null" THEN err ELSE lastErr

\* `lastErr = err` in the catch block
LastErr(lastErr, err) == err

\* the exported senders build mailOptions and call sendWithRetries(mailOptions)
SWR_Begin(m) ==
  /\ mail.pc = "idle"
  /\ mail' = [mail EXCEPT !.pc = "loop", !.mailOptions = m, !.attempt = 0, !.delay = InitialDelay,
                          !.lastErr = "null"]
  /\ UNCHANGED <<sendMail, metrics>>

\* one pass of the loop body: sendMail resolves ("ok") or rejects with an error
SWR_Attempt(outcome) ==
  /\ mail.pc = "loop"
  /\ mail.attempt < maxAttempts
  /\ sendMail' = Append(sendMail, outcome)
  /\ IF outcome = "ok"
     THEN /\ metrics' = [metrics EXCEPT !.externalSuccesses = @ + 1]
          /\ mail' = [mail EXCEPT !.attempt = @ + 1, !.pc = "done", !.result = "sent"]
     ELSE /\ metrics' = [metrics EXCEPT !.externalErrors = @ + 1]
          /\ mail' = [mail EXCEPT !.attempt = @ + 1, !.lastErr = LastErr(mail.lastErr, outcome),
                                  !.pc = IF mail.attempt + 1 >= maxAttempts THEN "throw" ELSE "backoff"]

\* setTimeout(r, delay) has fired: `delay *= 2` and the loop condition again
SWR_Backoff ==
  /\ mail.pc = "backoff"
  /\ mail' = [mail EXCEPT !.delay = @ * 2, !.pc = IF mail.attempt < maxAttempts THEN "loop" ELSE "throw"]
  /\ UNCHANGED <<sendMail, metrics>>

\* `throw lastErr || new Error("Unknown mailer error")`
SWR_Throw ==
  /\ mail.pc = "throw"
  /\ mail' = [mail EXCEPT !.pc = "done",
                          !.result = IF mail.lastErr # "null" THEN mail.lastErr ELSE "Unknown mailer error"]
  /\ UNCHANGED <<sendMail, metrics>>

\* --------------------------------- incrementCategory / decrementCategory
MaxMetaCalls == 3
MetaCalls == 1..MaxMetaCalls

\* category names as strings of characters
CategoryNames == {<<"F">>, <<"f">>, <<" ", "f">>, <<"F", " ">>, <<" ">>, << >>}
NullName == <<"null">>

\* String.prototype.toLowerCase
ToLowerCase(s) == [i \in DOMAIN s |-> IF s[i] = "F" THEN "f" ELSE s[i]]

\* String.prototype.trim
RECURSIVE Trim(_)
Trim(s) ==
  IF s = << >> THEN s
  ELSE IF Head(s) = " " THEN Trim(Tail(s))
  ELSE IF s[Len(s)] = " " THEN Trim(SubSeq(s, 1, Len(s) - 1))
  ELSE s

\* _normalize: null for a falsy name
_normalize(s) == IF s = << >> THEN NullName ELSE Trim(ToLowerCase(s))

\* `!normalized`: null or the empty string
Falsy(normalized) == normalized = NullName \/ normalized = << >>

NormalizedNames == {_normalize(n) : n \in CategoryNames} \ {NullName, << >>}
NoCategory == [exists |-> FALSE, name |-> NullName, productCount |-> 0]

PmDone(c, kind, name) == pm' = [pm EXCEPT ![c] = [pc |-> "done", kind |-> kind, normalized |-> _normalize(name)]]

\* incrementCategory: one upsert with $setOnInsert { name } and $inc { productCount: 1 }
IncrementCategory(c, name) ==
  LET normalized == _normalize(name) IN
  /\ pm[c].pc = "idle"
  /\ InOrder(pm, c)
  /\ PmDone(c, "increment", name)
  /\ IF Falsy(normalized)
     THEN UNCHANGED <<categories, incs>>
     ELSE /\ categories' = [categories EXCEPT ![normalized] =
                              IF @.exists THEN [@ EXCEPT !.productCount = @ + 1]
                              ELSE [exists |-> TRUE, name |-> name, productCount |-> 1]]
          /\ incs' = [incs EXCEPT ![normalized] = @ + 1]
  /\ UNCHANGED decs

\* decrementCategory up to the answer of findOneAndUpdate (new: true)
DC_Update(c, name) ==
  LET normalized == _normalize(name) IN
  /\ pm[c].pc = "idle"
  /\ InOrder(pm, c)
  /\ IF Falsy(normalized)
     THEN PmDone(c, "decrement", name) /\ UNCHANGED <<categories, decs>>
     ELSE /\ decs[normalized] < incs[normalized]
          /\ decs' = [decs EXCEPT ![normalized] = @ + 1]
          /\ IF ~categories[normalized].exists
             THEN PmDone(c, "decrement", name) /\ UNCHANGED categories
             ELSE /\ categories' = [categories EXCEPT ![normalized].productCount = @ - 1]
                  /\ IF categories[normalized].productCount - 1 <= 0
                     THEN pm' = [pm EXCEPT ![c] = [pc |-> "delete", kind |-> "decrement", normalized |-> normalized]]
                     ELSE PmDone(c, "decrement", name)
  /\ UNCHANGED incs

\* ProductCategory.deleteOne({ normalized })
DC_Delete(c) ==
  /\ pm[c].pc = "delete"
  /\ categories' = [categories EXCEPT ![pm[c].normalized] = NoCategory]
  /\ pm' = [pm EXCEPT ![c].pc = "done"]
  /\ UNCHANGED <<incs, decs>>

\* ------------------------------- createCODCommission and repeated calls
CodOrders == {"o1", "invalid"}
IdleCod == [pc |-> "idle", order |-> "none", result |-> "none"]
IdleRemit == [pc |-> "idle", snapHasKey |-> FALSE, snapBal |-> 0, result |-> "none"]

CodEnd(c, res) == cod' = [cod EXCEPT ![c].pc = "done", ![c].result = res]

\* checkCircuitBreaker, the id validation and the lookup of an existing
\* commission; every throw passes through the catch block's recordFailure
COD_Begin(c, order) ==
  /\ cod[c].pc = "idle"
  /\ cb.failures < MaxFailures
  /\ LET chk == checkCircuitBreaker(cb, now)
         call == [cod EXCEPT ![c].order = order]
     IN IF ~chk.ok
        THEN /\ cod' = [call EXCEPT ![c].pc = "done", ![c].result = "ExternalServiceError"]
             /\ cb' = recordFailure(chk.cb, now)
        ELSE IF order = "invalid"
        THEN /\ cod' = [call EXCEPT ![c].pc = "done", ![c].result = "ValidationError"]
             /\ cb' = recordFailure(chk.cb, now)
        ELSE IF order \in codComms
        THEN /\ cod' = [call EXCEPT ![c].pc = "done", ![c].result = "existing"]
             /\ cb' = chk.cb
        ELSE /\ cod' = [call EXCEPT ![c].pc = "save"]
             /\ cb' = chk.cb
  /\ UNCHANGED <<codComms, walletVars, comm, commLock, dirtyC, rm, now>>

\* commission.save(), which the database may refuse
COD_Save(c, ok) ==
  /\ cod[c].pc = "save"
  /\ IF ok
     THEN /\ codComms' = codComms \cup {cod[c].order}
          /\ CodEnd(c, "created")
          /\ UNCHANGED cb
     ELSE /\ CodEnd(c, "Error")
          /\ cb' = recordFailure(cb, now)
          /\ UNCHANGED codComms
  /\ UNCHANGED <<walletVars, comm, commLock, dirtyC, rm, now>>

\* the caller has its answer; the next request may come
COD_Return(c) ==
  /\ cod[c].pc = "done"
  /\ cod' = [cod EXCEPT ![c] = IdleCod]
  /\ UNCHANGED <<codComms, walletVars, commVars>>

Remit_Return(r) ==
  /\ rm[r].pc = "done"
  /\ rm' = [rm EXCEPT ![r] = IdleRemit]
  /\ UNCHANGED <<walletVars, comm, commLock, dirtyC, cb, now, cod, codComms>>

\* Date.now() advances
Now_Tick ==
  /\ now + TickSeconds <= MaxNow
  /\ now' = now + TickSeconds
  /\ UNCHANGED <<walletVars, comm, commLock, dirtyC, rm, cb, cod, codComms>>

\* the call that moved in this step was turned away by the open breaker
Rejected ==
  \/ \E r \in Remits : rm'[r] # rm[r] /\ rm'[r].result = "ExternalServiceError"
  \/ \E c \in CodCalls : cod'[c] # cod[c] /\ cod'[c].result = "ExternalServiceError"

\* history: the time of the oldest failure in the count, the time the breaker
\* opened, and whether a call that was let in has failed since it opened
BreakerHistory ==
  brk' = [first |-> IF cb'.failures = 0 THEN 0 - 1
                    ELSE IF cb'.failures = 1 THEN cb'.lastFailure
                    ELSE brk.first,
          openedAt |-> IF ~cb.isOpen /\ cb'.isOpen THEN now ELSE brk.openedAt,
          failedSince |-> IF ~cb.isOpen /\ cb'.isOpen THEN FALSE
                          ELSE brk.failedSince \/ (cb.isOpen /\ cb'.failures > cb.failures /\ ~Rejected)]

\* --------------------------------------------------- bulkRemitCommissions
\* ids the caller may pass: two commissions of the vendor and an id that
\* names no commission of this vendor
VendorCommissionIds == {"c1", "c2"}
CommissionIds == VendorCommissionIds \cup {"x"}
BulkAmounts == {5000, 10000}

RECURSIVE SeqsUpTo(_, _)
SeqsUpTo(S, n) == IF n = 0 THEN {<< >>} ELSE LET shorter == SeqsUpTo(S, n - 1)
                                             IN shorter \cup {Append(q, x) : q \in shorter, x \in S}
Batches == SeqsUpTo(CommissionIds, MaxBatch) \ {<< >>}

RECURSIVE SumSeq(_)
SumSeq(q) == IF q = << >> THEN 0 ELSE Head(q).amount + SumSeq(Tail(q))

AfterFailure_Abort(i, len) == len + 1

\* the catch block records the item and the loop goes on with the next id
AfterFailure(i, len) == i + 1

\* why remitCommissionViaWallet(id) throws, or "ok"; `conflict` is a write
\* conflict with a request outside the batch
RemitOutcome(id, admitted, conflict) ==
  IF ~admitted THEN "ExternalServiceError"
  ELSE IF id \notin VendorCommissionIds THEN "NotFoundError"
  ELSE IF ~RemittableStatus(vendorComms[id].status) THEN "NotFoundError"
  ELSE IF DuplicateRemittance(vendorComms[id].hasKey) THEN "ConflictError"
  ELSE IF vendorComms[id].amount <= 0 \/ balance < vendorComms[id].amount THEN "ValidationError"
  ELSE IF conflict THEN "WriteConflict"
  ELSE IF ~RemitDebitFilter(balance, vendorComms[id].amount) THEN "ValidationError"
  ELSE "ok"

Bulk_Start(ids) ==
  /\ bulk.pc = "idle"
  /\ bulk' = [bulk EXCEPT !.pc = "loop", !.ids = ids, !.i = 1]
  /\ UNCHANGED <<vendorComms, balance, wtx, cb>>

\* `await remitCommissionViaWallet(commissionId, vendorId, userId)` is entered
\* for the next id, or the loop is over and the results are returned
Bulk_Call ==
  /\ bulk.pc = "loop"
  /\ IF bulk.i <= Len(bulk.ids)
     THEN bulk' = [bulk EXCEPT !.pc = "await", !.inFlight = @ + 1]
     ELSE bulk' = [bulk EXCEPT !.pc = "done"]
  /\ UNCHANGED <<vendorComms, balance, wtx, cb>>

\* the awaited call commits or throws; the item goes to one of the lists
Bulk_Settle(conflict) ==
  LET id == bulk.ids[bulk.i]
      chk == checkCircuitBreaker(cb, now)
      outcome == RemitOutcome(id, chk.ok, conflict)
  IN  /\ bulk.pc = "await"
      /\ IF outcome = "ok"
         THEN /\ balance' = balance - vendorComms[id].amount
              /\ wtx' = wtx \cup {[type |-> "debit", amount |-> vendorComms[id].amount, refType |-> "commission",
                                   by |-> <<id, bulk.i>>]}
              /\ vendorComms' = [vendorComms EXCEPT ![id].status = "remitted", ![id].hasKey = TRUE]
              /\ cb' = chk.cb
              /\ bulk' = [bulk EXCEPT !.pc = "loop", !.inFlight = @ - 1, !.i = @ + 1,
                            !.successful = Append(@, [pos |-> bulk.i, commissionId |-> id,
                                                      amount |-> vendorComms[id].amount]),
                            !.totalAmount = @ + vendorComms[id].amount]
         ELSE /\ cb' = recordFailure(chk.cb, now)
              /\ bulk' = [bulk EXCEPT !.pc = "loop", !.inFlight = @ - 1, !.i = AfterFailure(@, Len(bulk.ids)),
                            !.failed = Append(@, [pos |-> bulk.i, commissionId |-> id, error |-> outcome])]
              /\ UNCHANGED <<vendorComms, balance, wtx>>

\* the wallet as one cash-in credit left it ($inc of a double on 0 is exact)
RoundTripInit(on) ==
  /\ stored \in (IF on THEN {DivideBy100(c) : c \in RoundTripBalances} ELSE {Zero})
  /\ rt = Slot(on, [pc |-> "idle", amount |-> 0, before |-> Zero, result |-> "none"])

\* a payment awaiting payment at the gateway
RecInit(on) ==
  /\ \E type \in (IF on THEN {"checkout", "cash_in"} ELSE {"checkout"}) :
       gwPay = [type |-> type, status |-> "awaiting_payment", isFinal |-> FALSE, paidAt |-> 0,
                failureReason |-> "null", ordersCreated |-> FALSE, walletCredited |-> FALSE]
  /\ rc = [t \in RecCalls |-> Slot(on, [pc |-> "idle", kind |-> "poll", input |-> "none", loaded |-> "none",
                                        final |-> FALSE, due |-> FALSE, mapped |-> "none", result |-> "none"])]
  /\ rcClock = 0
  /\ triggers = 0

\* an empty Payment collection
CreateInit(on) ==
  /\ docs = << >>
  /\ cr = Slot(on, [pc |-> "idle", kind |-> "none", amount |-> 0, intents |-> 0, result |-> "none"])

\* monitoring.resetMetrics() and a transport that has sent nothing
MailInit(on) ==
  /\ mail = Slot(on, [pc |-> "idle", mailOptions |-> "none", attempt |-> 0, delay |-> 0, lastErr |-> "null",
                      result |-> "none"])
  /\ sendMail = << >>
  /\ metrics = [externalErrors |-> 0, externalSuccesses |-> 0]

\* an empty ProductCategory collection
MetaInit(on) ==
  /\ categories = [n \in NormalizedNames |-> NoCategory]
  /\ pm = [c \in MetaCalls |-> Slot(on, [pc |-> "idle", kind |-> "none", normalized |-> NullName])]
  /\ incs = [n \in NormalizedNames |-> 0]
  /\ decs = [n \in NormalizedNames |-> 0]

\* no commission yet; circuitBreaker as the module initialises it
CodInit(on) ==
  /\ cod = [c \in CodCalls |-> Slot(on, IdleCod)]
  /\ codComms = {}
  /\ brk = [first |-> 0 - 1, openedAt |-> 0 - 1, failedSince |-> FALSE]

\* the vendor's commissions, pending or already remitted
BulkInit(on) ==
  /\ vendorComms \in (IF on
                      THEN [VendorCommissionIds -> [status : {"pending", "remitted"}, hasKey : {FALSE}, amount : BulkAmounts]]
                      ELSE {[c \in VendorCommissionIds |-> [status |-> "pending", hasKey |-> FALSE, amount |-> 0]]})
  /\ \A c \in VendorCommissionIds : vendorComms[c].status = "remitted" => vendorComms[c].amount = 5000
  /\ bulk = Slot(on, [pc |-> "idle", ids |-> << >>, i |-> 0, inFlight |-> 0, successful |-> << >>, failed |-> << >>,
                      totalAmount |-> 0])

ExtrasInit(on) ==
  /\ RoundTripInit("roundtrip" \in on)
  /\ RecInit("reconcile" \in on)
  /\ CreateInit("create" \in on)
  /\ MailInit("mail" \in on)
  /\ MetaInit("meta" \in on)
  /\ CodInit("cod" \in on)
  /\ BulkInit("bulk" \in on)

\* ---- the three kinds of debit against one wallet
DebitsInit == LedgerInit(DebitsWithdrawals, 0, DebitsRemits, DebitsPlanCalls, {NoKey}) /\ PaymentsInit(0, 0, 0) /\ ExtrasInit({})

DebitsNext ==
  \/ \E w \in Withdrawals, amount \in WithdrawAmounts :
       CW_Begin(w, amount, NoKey) /\ UNCHANGED <<commVars, planVars, payVars, extVars>>
  \/ \E w \in Withdrawals : CW_CheckBalance(w) /\ UNCHANGED <<commVars, planVars, payVars, extVars>>
  \/ \E w \in Withdrawals : CW_CreatePayment(w) /\ UNCHANGED <<commVars, planVars, payVars, extVars>>
  \/ \E w \in Withdrawals : CW_Debit(w) /\ UNCHANGED <<commVars, planVars, payVars, extVars>>
  \/ \E r \in Remits : Remit_Begin(r) /\ UNCHANGED <<wdVars, planVars, payVars, extVars>>
  \/ \E r \in Remits : Remit_SetKey(r) /\ UNCHANGED <<wdVars, planVars, payVars, extVars>>
  \/ \E r \in Remits : Remit_CheckWallet(r) /\ UNCHANGED <<wdVars, planVars, payVars, extVars>>
  \/ \E r \in Remits : Remit_Debit(r) /\ UNCHANGED <<wdVars, planVars, payVars, extVars>>
  \/ \E r \in Remits : Remit_Commit(r) /\ UNCHANGED <<wdVars, planVars, payVars, extVars>>
  \/ \E p \in PlanCalls, plan \in Plans : Idem_Lookup(p, NoKey, plan) /\ UNCHANGED <<wdVars, commVars, payVars, extVars>>
  \/ \E p \in PlanCalls : Plan_Debit(p) /\ UNCHANGED <<wdVars, commVars, payVars, extVars>>
  \/ \E p \in PlanCalls : Plan_Commit(p) /\ UNCHANGED <<wdVars, commVars, payVars, extVars>>
  \/ \E p \in PlanCalls : Idem_Complete(p) /\ UNCHANGED <<wdVars, commVars, payVars, extVars>>
  \/ \E p \in PlanCalls : Idem_Fail(p) /\ UNCHANGED <<wdVars, commVars, payVars, extVars>>

SpecDebits == DebitsInit /\ [][DebitsNext]_vars

\* ---- concurrent createWithdrawal calls of one vendor
CreateWithdrawalInit == LedgerInit(MaxWithdrawals, 0, 0, 0, {NoKey}) /\ PaymentsInit(0, 0, 0) /\ ExtrasInit({})

CreateWithdrawalNext ==
  /\ \/ \E w \in Withdrawals, amount \in WithdrawAmounts, k \in CallerKeys : CW_Begin(w, amount, k)
     \/ \E w \in Withdrawals : CW_CheckBalance(w)
     \/ \E w \in Withdrawals : CW_CreatePayment(w)
     \/ \E w \in Withdrawals : CW_Debit(w)
  /\ UNCHANGED <<commVars, planVars, payVars, extVars>>

SpecCreateWithdrawal == CreateWithdrawalInit /\ [][CreateWithdrawalNext]_vars

\* ---- withdrawals and their approval / rejection / cancellation
WithdrawInit == LedgerInit(MaxWithdrawals, WithdrawAdminOps, 0, 0, {NoKey}) /\ PaymentsInit(0, 0, 0) /\ ExtrasInit({})

WithdrawNext ==
  /\ \/ \E w \in Withdrawals, amount \in WithdrawAmounts, k \in CallerKeys : CW_Begin(w, amount, k)
     \/ \E w \in Withdrawals : CW_CheckBalance(w)
     \/ \E w \in Withdrawals : CW_CreatePayment(w)
     \/ \E w \in Withdrawals : CW_Debit(w)
     \/ \E a \in AdminOps, kind \in {"approve", "reject", "cancel"}, w \in Withdrawals : Adm_Read(a, kind, w)
     \/ \E a \in AdminOps : Adm_Save(a)
     \/ \E a \in AdminOps : Adm_Credit(a)
  /\ UNCHANGED <<commVars, planVars, payVars, extVars>>

SpecWithdraw == WithdrawInit /\ [][WithdrawNext]_vars

\* ---- the admin lifecycle of one withdrawal
AdminInit == LedgerInit(AdminWithdrawals, MaxAdminOps, 0, 0, {NoKey}) /\ PaymentsInit(0, 0, 0) /\ ExtrasInit({})

AdminNext ==
  /\ \/ \E w \in Withdrawals, amount \in WithdrawAmounts, k \in CallerKeys : CW_Begin(w, amount, k)
     \/ \E w \in Withdrawals : CW_CheckBalance(w)
     \/ \E w \in Withdrawals : CW_CreatePayment(w)
     \/ \E w \in Withdrawals : CW_Debit(w)
     \/ \E a \in AdminOps, kind \in {"approve", "reject", "cancel"}, w \in Withdrawals : Adm_Read(a, kind, w)
     \/ \E a \in AdminOps : Adm_Save(a)
     \/ \E a \in AdminOps : Adm_Credit(a)
     \/ \E a \in AdminOps, status \in UpdateStatuses, w \in Withdrawals : UWS_Read(a, status, w)
     \/ \E a \in AdminOps : UWS_Delegated(a)
     \/ \E a \in AdminOps : UWS_Save(a)
  /\ UNCHANGED <<commVars, planVars, payVars, extVars>>

SpecAdmin == AdminInit /\ [][AdminNext]_vars

\* ---- remittance attempts on one commission, with admin status changes
RemitInit == LedgerInit(0, 0, MaxRemits, 0, {NoKey}) /\ PaymentsInit(0, 0, 0) /\ ExtrasInit({})

RemitNext ==
  /\ \/ \E r \in Remits : Remit_Begin(r)
     \/ \E r \in Remits : Remit_SetKey(r)
     \/ \E r \in Remits : Remit_CheckWallet(r)
     \/ \E r \in Remits : Remit_Debit(r)
     \/ \E r \in Remits : Remit_Commit(r)
     \/ \E st \in CommissionStatuses : UpdateCommissionStatus(st)
  /\ UNCHANGED <<wdVars, planVars, payVars, extVars>>

SpecRemit == RemitInit /\ [][RemitNext]_vars

\* ---- remittance attempts against a wallet that may hold too little
ShortBalances == {5000}

RemitRetryInit ==
  LedgerInitFrom(ShortBalances \cup InitBalances, 0, 0, MaxRemits, 0, {NoKey}) /\ PaymentsInit(0, 0, 0) /\ ExtrasInit({})

RemitRetryNext == RemitNext

SpecRemitRetry == RemitRetryInit /\ [][RemitRetryNext]_vars

\* ---- calls of both kinds arriving over time at the circuit breaker
BreakerInit ==
  LedgerInitFrom(ShortBalances \cup InitBalances, 0, 0, BreakerRemits, 0, {NoKey}) /\ PaymentsInit(0, 0, 0) /\ ExtrasInit({"cod"})

BreakerNext ==
  /\ \/ \E r \in Remits : cb.failures < MaxFailures /\ Remit_Begin(r) /\ UNCHANGED <<cod, codComms>>
     \/ \E r \in Remits : Remit_SetKey(r) /\ UNCHANGED <<cod, codComms>>
     \/ \E r \in Remits : Remit_CheckWallet(r) /\ UNCHANGED <<cod, codComms>>
     \/ \E r \in Remits : Remit_Debit(r) /\ UNCHANGED <<cod, codComms>>
     \/ \E r \in Remits : Remit_Commit(r) /\ UNCHANGED <<cod, codComms>>
     \/ \E r \in Remits : Remit_Return(r)
     \/ \E c \in CodCalls, order \in CodOrders : COD_Begin(c, order)
     \/ \E c \in CodCalls, ok \in BOOLEAN : COD_Save(c, ok)
     \/ \E c \in CodCalls : COD_Return(c)
     \/ Now_Tick
  /\ BreakerHistory
  /\ UNCHANGED <<wdVars, planVars, payVars, roundTripVars, recVars, createVars, mailVars, metaVars, bulkVars>>

SpecBreaker == BreakerInit /\ [][BreakerNext]_vars

\* ---- one batch of remittances
BulkModelInit ==
  LedgerInitFrom(ShortBalances \cup InitBalances, 0, 0, 1, 0, {NoKey}) /\ PaymentsInit(0, 0, 0) /\ ExtrasInit({"bulk"})

BulkNext ==
  /\ \/ \E ids \in Batches : Bulk_Start(ids)
     \/ Bulk_Call
     \/ \E conflict \in BOOLEAN : Bulk_Settle(conflict)
  /\ UNCHANGED <<walletLock, dirtyW, wdVars, comm, commLock, dirtyC, rm, now, planVars, payVars,
                 roundTripVars, recVars, createVars, mailVars, metaVars, codVars>>

SpecBulk == BulkModelInit /\ [][BulkNext]_vars

\* ---- plan changes under the idempotency guard, over several days
IdemInit == LedgerInit(0, 0, 0, MaxPlanCalls, CallerKeys) /\ PaymentsInit(0, 0, 0) /\ ExtrasInit({})

IdemNext ==
  /\ \/ \E p \in PlanCalls, key \in CallerKeys, plan \in Plans : Idem_Lookup(p, key, plan)
     \/ \E p \in PlanCalls : Idem_Create(p)
     \/ \E p \in PlanCalls : Plan_Debit(p)
     \/ \E p \in PlanCalls : Plan_Commit(p)
     \/ \E p \in PlanCalls : Idem_Complete(p)
     \/ \E p \in PlanCalls : Idem_Fail(p)
     \/ \E key \in IdemKeys : Idem_Expire(key)
     \/ DayPasses
  /\ UNCHANGED <<wdVars, commVars, payVars, extVars>>

SpecIdem == IdemInit /\ [][IdemNext]_vars

\* ---- webhook deliveries and status polls for one paid cash-in
CashInInit == LedgerInit(0, 0, 0, 0, {NoKey}) /\ PaymentsInit(MaxTriggers, 0, 0) /\ ExtrasInit({})

CashInNext ==
  /\ \/ \E t \in Triggers, kind \in {"webhook", "poll"} : Cash_Load(t, kind)
     \/ \E t \in Triggers : Cash_Mark(t)
     \/ \E t \in Triggers : Cash_CreateWT(t)
     \/ \E t \in Triggers : Cash_IncWallet(t)
     \/ \E t \in Triggers : Cash_SavePayment(t)
     \/ \E t \in Triggers : Cash_Commit(t)
     \/ \E t \in Triggers : Cash_Final(t)
  /\ UNCHANGED <<wdVars, commVars, planVars, ccVars, matVars, extVars>>

SpecCashIn == CashInInit /\ [][CashInNext]_vars

\* ---- concurrent createCashIn calls of one user
CreateCashInInit == LedgerInit(0, 0, 0, 0, {NoKey}) /\ PaymentsInit(0, MaxCashCalls, 0) /\ ExtrasInit({})

CreateCashInNext ==
  /\ \/ \E c \in CashCalls, k \in CashInKeys : CC_PreQuery(c, k)
     \/ \E c \in CashCalls : CC_Save(c)
     \/ \E c \in CashCalls, ok \in BOOLEAN : CC_Gateway(c, ok)
  /\ UNCHANGED <<walletVars, wdVars, commVars, planVars, cashVars, matVars, extVars>>

SpecCreateCashIn == CreateCashInInit /\ [][CreateCashInNext]_vars

\* ---- materialization triggers for one pay-first payment
MaterializeInit == LedgerInit(0, 0, 0, 0, {NoKey}) /\ PaymentsInit(0, 0, MaxMatCalls) /\ ExtrasInit({})

ConcurrentMaterializeNext ==
  /\ \/ \E t \in MatCalls, kind \in {"webhook", "poll", "recover"} : Mat_Load(t, kind)
     \/ \E t \in MatCalls : Mat_Mark(t)
     \/ \E t \in MatCalls : Mat_PollSave(t)
     \/ \E t \in MatCalls : Mat_Fresh(t)
     \/ \E t \in MatCalls : Mat_Claim(t)
     \/ \E t \in MatCalls : Mat_Lost(t)
     \/ \E t \in MatCalls, ok \in BOOLEAN : Mat_SaveOrder(t, ok)
     \/ \E t \in MatCalls : Mat_Finish(t)
     \/ \E t \in MatCalls : Mat_Catch(t)
  /\ UNCHANGED <<walletVars, wdVars, commVars, planVars, cashVars, ccVars, extVars>>

\* the triggers all run within the stale cutoff of one another
SpecConcurrentMaterialize == MaterializeInit /\ [][ConcurrentMaterializeNext]_vars

\* ---- materializations whose Order saves may fail
PartialInit == LedgerInit(0, 0, 0, 0, {NoKey}) /\ PaymentsInit(0, 0, PartialCalls) /\ ExtrasInit({})

PartialNext == ConcurrentMaterializeNext

SpecPartial == PartialInit /\ [][PartialNext]_vars

MaterializeNext ==
  \/ ConcurrentMaterializeNext
  \/ Tick /\ UNCHANGED <<walletVars, wdVars, commVars, planVars, cashVars, ccVars, extVars>>

\* the same with time passing between the steps
SpecMaterialize == MaterializeInit /\ [][MaterializeNext]_vars

\* ---- one withdrawal created and then rejected, nothing else in flight
SpecRoundTripInit == LedgerInit(0, 0, 0, 0, {NoKey}) /\ PaymentsInit(0, 0, 0) /\ ExtrasInit({"roundtrip"})

RoundTripNext ==
  /\ \/ \E amount \in RoundTripAmounts : RT_CreateWithdrawal(amount)
     \/ RT_RejectWithdrawal
  /\ UNCHANGED <<walletVars, wdVars, commVars, planVars, payVars, recVars, createVars, mailVars, metaVars, codVars, bulkVars>>

SpecRoundTrip == SpecRoundTripInit /\ [][RoundTripNext]_vars

\* ---- polls, webhook events and refunds for one gateway payment
ReconcileInit == LedgerInit(0, 0, 0, 0, {NoKey}) /\ PaymentsInit(0, 0, 0) /\ ExtrasInit({"reconcile"})

ReconcileNext ==
  /\ \/ \E t \in RecCalls, g \in GatewayStatuses : Rec_Load(t, "poll", g)
     \/ \E t \in RecCalls, ev \in WebhookEvents : Rec_Load(t, "webhook", ev)
     \/ \E t \in RecCalls, k \in RefundKinds : Rec_Load(t, "refund", k)
     \/ \E t \in RecCalls : Rec_Mark(t)
     \/ \E t \in RecCalls, ok \in BOOLEAN : Rec_Downstream(t, ok)
     \/ \E t \in RecCalls : Rec_Save(t)
     \/ Rec_Tick
  /\ UNCHANGED <<walletVars, wdVars, commVars, planVars, payVars, roundTripVars, createVars, mailVars, metaVars, codVars, bulkVars>>

SpecReconcile == ReconcileInit /\ [][ReconcileNext]_vars

\* ---- the creators filling an empty Payment collection, one call at a time
CheckoutAmounts == CreateAmounts \cup {0 - 100}

CreateModelInit == LedgerInit(0, 0, 0, 0, {NoKey}) /\ PaymentsInit(0, 0, 0) /\ ExtrasInit({"create"})

CreateNext ==
  /\ \/ \E amount \in CheckoutAmounts, orderFound \in BOOLEAN, paid \in BOOLEAN : CCP_Check(amount, orderFound, paid)
     \/ \E ok \in BOOLEAN : CCP_Intent(ok)
     \/ \E amount \in CheckoutAmounts, ok \in BOOLEAN : CreateQRPH(amount, ok)
     \/ \E amount \in CreateAmounts, ok \in BOOLEAN : CreateSubscriptionQRPH(amount, ok)
     \/ \E amount \in CreateAmounts : CreateCashInRow(amount)
     \/ \E amount \in CreateAmounts, funded \in BOOLEAN : CreateWithdrawRow(amount, funded)
     \/ \E d \in Docs, amount \in CreateAmounts, ok \in BOOLEAN : CreateRefundRow(d, amount, ok)
     \/ \E d \in Docs, status \in {"succeeded", "failed"} : MarkDoc(d, status)
  /\ UNCHANGED <<walletVars, wdVars, commVars, planVars, payVars, roundTripVars, recVars, mailVars, metaVars, codVars, bulkVars>>

SpecCreate == CreateModelInit /\ [][CreateNext]_vars

\* ---- one verification or welcome email sent through a failing transport
MailModelInit == LedgerInit(0, 0, 0, 0, {NoKey}) /\ PaymentsInit(0, 0, 0) /\ ExtrasInit({"mail"})

MailNext ==
  /\ \/ \E m \in Mails : SWR_Begin(m)
     \/ \E outcome \in MailErrors \cup {"ok"} : SWR_Attempt(outcome)
     \/ SWR_Backoff
     \/ SWR_Throw
  /\ UNCHANGED <<walletVars, wdVars, commVars, planVars, payVars, roundTripVars, recVars, createVars, metaVars, codVars, bulkVars>>

SpecMail == MailModelInit /\ [][MailNext]_vars

\* ---- products entering and leaving one category, their calls overlapping
MetaModelInit == LedgerInit(0, 0, 0, 0, {NoKey}) /\ PaymentsInit(0, 0, 0) /\ ExtrasInit({"meta"})

MetaNext ==
  /\ \/ \E c \in MetaCalls, name \in CategoryNames : IncrementCategory(c, name)
     \/ \E c \in MetaCalls, name \in CategoryNames : DC_Update(c, name)
     \/ \E c \in MetaCalls : DC_Delete(c)
  /\ UNCHANGED <<walletVars, wdVars, commVars, planVars, payVars, roundTripVars, recVars, createVars, mailVars, codVars, bulkVars>>

SpecMeta == MetaModelInit /\ [][MetaNext]_vars

\* ============================================================ claims

\* C1: the wallet balance is never negative, and a debit that a transaction
\* has applied but not yet committed is covered by the balance: every debit
\* (withdrawal, commission remittance, wallet-paid plan change) is applied
\* under its balance >= amount condition.
C1_NoOverdraft ==
  /\ balance >= 0
  /\ \A r \in Remits : rm[r].pc = "commit" => balance >= comm.amount
  /\ \A p \in PlanCalls : pl[p].pc = "commit" => balance >= PlanPrice(pl[p].plan)

\* concurrent debits exceeded the funds: one was applied and emptied the
\* wallet, the conditional debit of a withdrawal was refused
C1_Witness ==
  /\ balance = 0
  /\ \E w \in Withdrawals : cw[w].result = "Error"
  /\ \/ \E r \in Remits : rm[r].result = "ok"
     \/ planDebits > 0

\* C2 (as claimed): the balance equals completed credits minus completed
\* debits of the WalletTransaction ledger.
C2_BalanceMatchesLedger ==
  balance = SumAmounts({t \in wtx : t.type = "credit"}) - SumAmounts({t \in wtx : t.type = "debit"})

\* a createWithdrawal call at its balance check with an amount above the balance
C10_Step ==
  \A w \in Withdrawals :
    (cw[w].pc = "read" /\ cw[w].amount > balance /\ cw'[w] # cw[w])
      => /\ cw'[w].pc = "done"
         /\ cw'[w].result = "ValidationError: insufficient balance"
         /\ payRows' = payRows
         /\ balance' = balance

C10_Rejected ==
  \A w \in Withdrawals : cw[w].result = "ValidationError: insufficient balance" => payRows[w] = NoRow

CashCredits == {t \in wtx : t.type = "credit" /\ t.by[1] = "cashin"}

\* C3 (as claimed): whatever webhook deliveries and status polls run for a
\* paid cash-in, and however they interleave, the wallet is credited at most
\* once on its account (one WalletTransaction), with netAmount.
C3_CreditedOnce ==
  /\ Cardinality(CashCredits) <= 1
  /\ \A c \in CashCredits : c.amount = cashPay.netAmount

\* ---------------------------------------------------------------- C4
\* ---- a succeeded payment that keeps being triggered, a claim winner that
\* may be slow or die, and time passing
StaleInit ==
  /\ LedgerInit(0, 0, 0, 0, {NoKey}) /\ PaymentsInit(0, 0, StaleCalls) /\ ExtrasInit({})
  /\ coPay.status = "succeeded"
  /\ coPay.groups # <<>>

StaleRest == <<walletVars, wdVars, commVars, planVars, cashVars, ccVars, extVars>>

StaleLoad == (\E t \in MatCalls, kind \in {"webhook", "poll", "recover"} : Mat_Load(t, kind)) /\ UNCHANGED StaleRest
StaleStep(t) ==
  /\ Mat_Mark(t) \/ Mat_Fresh(t) \/ Mat_Claim(t) \/ Mat_Lost(t) \/ Mat_Finish(t) \/ Mat_Catch(t) \/ Mat_Again(t)
  /\ UNCHANGED StaleRest
StaleSave(t, ok) == Mat_SaveOrder(t, ok) /\ UNCHANGED StaleRest
StaleCrash == (\E t \in MatCalls : Mat_Crash(t)) /\ UNCHANGED StaleRest
StaleTime == TimePasses /\ UNCHANGED StaleRest

StaleNext ==
  \/ StaleLoad
  \/ \E t \in MatCalls : StaleStep(t)
  \/ \E t \in MatCalls, ok \in BOOLEAN : StaleSave(t, ok)
  \/ StaleCrash
  \/ StaleTime

\* every started call goes on unless its process died, triggers keep
\* arriving, time passes, and an Order save that is retried again and again
\* succeeds in the end
StaleFairness ==
  /\ WF_vars(StaleLoad)
  /\ WF_vars(StaleTime)
  /\ \A t \in MatCalls : WF_vars(StaleStep(t)) /\ WF_vars(\E ok \in BOOLEAN : StaleSave(t, ok))
  /\ SF_vars(\E t \in MatCalls : StaleSave(t, TRUE))

SpecStale == StaleInit /\ [][StaleNext]_vars /\ StaleFairness

OrdersOf(v) == {o \in orders : o.vendor = v}

\* C4 (as claimed): whatever materialization triggers run for a succeeded
\* pay-first payment, and however they interleave, no vendor group ever has
\* a second Order.
C4_SingleMaterialization == \A v \in {"v1", "v2"} : Cardinality(OrdersOf(v)) <= 1

\* ---------------------------------------------------------------- C5
CommissionDebits == {t \in wtx : t.type = "debit" /\ t.refType = "commission"}

\* an attempt that ends without success leaves the wallet and its ledger alone
C5_FailedAttemptStep ==
  \A r \in Remits :
    (rm[r].pc \notin {"off", "idle", "done"} /\ rm'[r].pc = "done" /\ rm'[r].result # "ok")
      => (balance' = balance /\ wtx' = wtx /\ comm'.status = comm.status)

C5_AtMostOnce ==
  /\ comm.remits <= 1
  /\ Cardinality(CommissionDebits) = comm.remits
  /\ Cardinality({r \in Remits : rm[r].result = "ok"}) = comm.remits
  /\ \A t \in CommissionDebits : t.amount = comm.amount

\* C5: remittance attempts on one commission, sequential or interleaved (and
\* with admin status changes in between), move it to remitted at most once,
\* with one debit WalletTransaction of the commission amount for that one
\* transition; every attempt that fails leaves the wallet unchanged.
C5_SingleRemit == C5_AtMostOnce /\ [][C5_FailedAttemptStep /\ C5_AtMostOnce']_vars

\* one attempt remitted, another one failed, and the wallet was debited once
C5_Witness ==
  /\ comm.remits = 1
  /\ Cardinality(CommissionDebits) = 1
  /\ \E r \in Remits : rm[r].result \in {"ConflictError", "WriteConflict", "NotFoundError"}

\* ---------------------------------------------------------------- C6
InHandler(p) == pl[p].pc \in {"handler", "commit", "succeeded", "failed"}

\* identical requests (key, body) whose handler ran to completion
ExecutedTwice(p, q) ==
  /\ p # q
  /\ pl[p].key # NoKey
  /\ pl[p].key = pl[q].key
  /\ pl[p].plan = pl[q].plan
  /\ pl[p].result = "ok"
  /\ pl[q].result = "ok"

\* C6 (as claimed): once a request with key k has completed, no later
\* identical request executes the handler again.
C6_ExecutedOnce == \A p, q \in PlanCalls : ~ExecutedTwice(p, q)

\* a lookup that finds a completed record with the same request hash
C6_ReplayStep ==
  \A p \in PlanCalls :
    (pl[p].pc = "idle" /\ pl'[p].pc # "idle" /\ pl'[p].key # NoKey
       /\ idemRec[pl'[p].key].status = "completed"
       /\ idemRec[pl'[p].key].requestHash = RequestHash(pl'[p].plan))
      => /\ pl'[p].pc = "done"
         /\ pl'[p].result = "replayed"
         /\ pl'[p].response = idemRec[pl'[p].key].response
         /\ pl'[p].response = StoredResponse(HandlerResponse(pl'[p].plan))
         /\ balance' = balance

C6_OncePerWindow ==
  \A p, q \in PlanCalls :
    ExecutedTwice(p, q) => (pl[p].at - pl[q].at >= RetentionDays \/ pl[q].at - pl[p].at >= RetentionDays)

\* C6 (amended): while the completed record is retained, a later identical
\* request returns the stored response without executing the handler; two
\* executions of identical requests are at least the retention window apart.
C6_ReplayWhileRetained == C6_OncePerWindow /\ [][C6_ReplayStep /\ C6_OncePerWindow']_vars

\* a request was replayed from the record of a paid plan change
C6_Witness ==
  \E p, q \in PlanCalls :
    /\ pl[p].result = "ok"
    /\ pl[q].result = "replayed"
    /\ pl[q].key = pl[p].key
    /\ pl[q].response = StoredResponse(pl[p].response)
    /\ planDebits = 1
    /\ day > 0

\* ---------------------------------------------------------------- C7
\* C7 (as claimed): a call that ends without running the handler while a
\* started record of its key exists was rejected as a conflict.
C7_RejectedAsConflict ==
  \A p \in PlanCalls :
    (pl[p].pc = "done" /\ pl[p].key # NoKey /\ pl[p].result \notin {"ok", "error", "replayed"})
      => pl[p].result \in {"409 already in progress", "409 reused with different payload"}

\* ---------------------------------------------------------------- C8
\* the step in which a failed handler's error leaves withIdempotency
C8_FailStep ==
  \A p \in PlanCalls :
    (pl[p].pc = "failed" /\ pl'[p].pc = "done" /\ pl[p].key # NoKey)
      => (pl'[p].result = "error" /\ idemRec'[pl[p].key].status = "none")

\* a started record belongs to a call whose handler is running
C8_NoOrphan ==
  \A k \in IdemKeys :
    idemRec[k].status = "started" => \E p \in PlanCalls : pl[p].key = k /\ InHandler(p)

\* C8: when the handler fails, the started record of the key is removed as
\* the error propagates, so no started record outlives its call and a later
\* call with the key runs the handler again.
C8_FailureReleasesKey == C8_NoOrphan /\ [][C8_FailStep /\ C8_NoOrphan']_vars

\* a call failed and a later call with the same key ran the handler
C8_Witness ==
  \E p, q \in PlanCalls :
    /\ p < q
    /\ pl[p].key # NoKey
    /\ pl[q].key = pl[p].key
    /\ pl[p].result = "error"
    /\ pl[q].result = "ok"
    /\ pl[q].at = pl[p].at
    /\ idemRec[pl[q].key].status = "completed"

\* ---------------------------------------------------------------- C9
\* C9: whatever createCashIn calls of one user interleave, no two cash-in
\* Payment rows carry the same idempotency key, and every call that returns
\* a record returns the one row of its key (found by the pre-query, created
\* by the call, or found by the duplicate-key fallback).
C9_OneRowPerKey ==
  /\ \A x, y \in CashCalls :
       (cashRows[x].status # "none" /\ cashRows[y].status # "none" /\ cashRows[x].key = cashRows[y].key)
         => x = y
  /\ \A c \in CashCalls :
       (cc[c].pc = "done" /\ cc[c].result \in {"existing", "duplicate", "created"})
         => CashInRowsWithKey(cc[c].key) = {cc[c].returned}

\* two calls with the same caller key both passed the pre-query; one created
\* the row and the other got it through the duplicate-key fallback
C9_Witness ==
  \E x, y \in CashCalls :
    /\ cc[x].result = "created"
    /\ cc[y].result = "duplicate"
    /\ cc[x].key = cc[y].key
    /\ cc[y].returned = x

\* ---------------------------------------------------------------- C11
\* C11: after a withdrawal was created and then rejected, the wallet balance
\* equals its value before the withdrawal was created.
C11_NetZero == rt.pc = "rejected" => stored = rt.before

\* ---------------------------------------------------------------- C12
\* an operation on withdrawal w that has set its status and not yet credited
CreditPending(w) == \E a \in AdminOps : adm[a].pc = "credit" /\ adm[a].target = w

\* C12: every withdraw Payment whose status became rejected or cancelled has
\* had a compensating credit of its amount applied to the wallet, once the
\* operation that made the transition has finished (stated for withdrawals
\* whose debit was applied).
C12_Compensated ==
  \A w \in Withdrawals :
    (payRows[w].status \in {"rejected", "cancelled"} /\ payRows[w].debited /\ ~CreditPending(w))
      => payRows[w].credits >= 1

\* ---------------------------------------------------------------- C13
\* a refund moving a succeeded payment to refunded / partially_refunded
RefundStep ==
  /\ gwPay.status = "succeeded"
  /\ gwPay'.status \in {"refunded", "partially_refunded"}
  /\ \E t \in RecCalls : rc[t].kind = "refund" /\ rc[t].pc = "save" /\ rc'[t].pc = "done"

\* a write by a call that loaded the payment with isFinal set
WriteAfterFinal == \E t \in RecCalls : rc[t].final /\ rc[t].pc \in {"mark", "save"} /\ rc'[t].pc # rc[t].pc

C13_Step == WriteAfterFinal => (gwPay'.status = gwPay.status \/ RefundStep)

\* C13: a poll or webhook event that finds the payment with isFinal set does
\* not change its status; only a refund may move succeeded to refunded or
\* partially_refunded.
C13_FinalIsImmutable == [][C13_Step]_vars

\* ---------------------------------------------------------------- C14
\* C14: the materialization calls for one payment that returned a list of
\* order ids all returned lists of the same length.
C14_SameLength ==
  \A t, u \in MatCalls :
    (mt[t].result = "orderIds" /\ mt[u].result = "orderIds") => mt[t].returned = mt[u].returned

\* ---------------------------------------------------------------- C15
\* a createCashIn call made after an attempt with its key had failed at the
\* gateway was answered with the row of that attempt
ReturnedWithoutGateway(c) ==
  /\ cc[c].pc = "done"
  /\ cc[c].result \in {"existing", "duplicate"}
  /\ cc[c].retry

\* C15: after a gateway failure during createCashIn no row is marked
\* failed, there is at most one row per idempotency key, and a later call
\* with the same key contacts the gateway again (it is not answered with the
\* row the failed attempt left behind).
C15_RetryReachesGateway ==
  /\ \A x \in CashCalls : cashRows[x].status # "failed"
  /\ \A x, y \in CashCalls :
       (cashRows[x].status # "none" /\ cashRows[y].status # "none" /\ cashRows[x].key = cashRows[y].key) => x = y
  /\ \A c \in CashCalls : ~ReturnedWithoutGateway(c)

\* C16: a createCheckoutPayment call with amount 0 is accepted without an
\* amount ValidationError and never invokes payment-intent creation.
FreeOrderCall == cr.kind = "checkout" /\ cr.amount = 0 /\ cr.pc = "done"

C16_FreeOrderBypassesGateway ==
  FreeOrderCall => (cr.result # "ValidationError" /\ cr.intents = 0)

\* C17: every persisted Payment has netAmount = amount - fee.
C17_NetAmountConsistent ==
  \A d \in DOMAIN docs : docs[d].netAmount = docs[d].amount - docs[d].fee

\* a QR Ph row, whose constructor passes another netAmount, and a row saved
\* again after its creation
C17_Witness ==
  /\ \E d \in DOMAIN docs : docs[d].fee = docs[d].amount /\ docs[d].amount > 0 /\ docs[d].netAmount = 0
  /\ \E d \in DOMAIN docs : docs[d].status \in {"succeeded", "refunded", "partially_refunded"}

\* C18: sending a verification email calls sendMail at most 3 times, stops at
\* the first attempt that succeeds, records one external error per failed
\* attempt and one success, and throws the last error when all 3 attempts fail.
Failed == {i \in DOMAIN sendMail : sendMail[i] # "ok"}
Succeeded == {i \in DOMAIN sendMail : sendMail[i] = "ok"}

C18_BoundedRetries ==
  /\ Len(sendMail) <= 3
  /\ \A i \in Succeeded : i = Len(sendMail)
  /\ metrics.externalErrors = Cardinality(Failed)
  /\ metrics.externalSuccesses = Cardinality(Succeeded)
  /\ Succeeded # {} => mail.pc = "done" /\ mail.result = "sent"
  /\ Cardinality(Failed) = 3 => mail.pc \in {"throw", "done"}
  /\ mail.pc = "done" =>
       \/ mail.result = "sent" /\ Succeeded # {}
       \/ Cardinality(Failed) = 3 /\ mail.result = sendMail[3]

\* three attempts failed with different errors and the call has thrown
C18_Witness ==
  /\ mail.pc = "done"
  /\ mail.mailOptions = "sendVerificationEmail"
  /\ Len(sendMail) = 3
  /\ sendMail[1] # sendMail[3]
  /\ mail.result = sendMail[3]
  /\ metrics.externalErrors = 3

\* C19: when no decrementCategory call is in flight, the stored productCount
\* of a category equals increments minus decrements when that number is
\* positive, and the category document does not exist when it is zero.
Deleting(n) == \E c \in MetaCalls : pm[c].pc = "delete" /\ pm[c].normalized = n

C19_CountMatchesCalls ==
  \A n \in NormalizedNames :
    ~Deleting(n) =>
      /\ incs[n] - decs[n] > 0 => (categories[n].exists /\ categories[n].productCount = incs[n] - decs[n])
      /\ incs[n] - decs[n] = 0 => ~categories[n].exists

\* C20: a poll or webhook whose mapped status equals the payment's current
\* status, with no other call in flight, leaves status, paidAt, isFinal and
\* the failure reason as they were and starts no downstream effect.
Replaying(t) ==
  /\ rc[t].kind \in {"poll", "webhook"}
  /\ rc[t].pc \in {"mark", "downstream", "retry", "save"}
  /\ rc[t].mapped = rc[t].loaded
  /\ rc'[t] # rc[t]
  /\ \A u \in RecCalls \ {t} : rc[u].pc \in {"idle", "done"}

C20_Step ==
  (\E t \in RecCalls : Replaying(t)) =>
    /\ gwPay'.status = gwPay.status
    /\ gwPay'.paidAt = gwPay.paidAt
    /\ gwPay'.isFinal = gwPay.isFinal
    /\ gwPay'.failureReason = gwPay.failureReason
    /\ triggers' = triggers

C20_SameStatusIsNoOp == [][C20_Step]_vars

\* ---------------------------------------------------------------- C21
\* a step of remittance attempt r other than its successful commit
RemitStepWithoutCommit(r) == rm'[r] # rm[r] /\ rm'[r].result # "ok"

C21_Step ==
  \A r \in Remits :
    RemitStepWithoutCommit(r) => (comm'.status = comm.status /\ comm'.hasKey = comm.hasKey
                                    /\ comm'.remits = comm.remits /\ balance' = balance /\ wtx' = wtx)

\* C21: no step of a remitCommissionViaWallet call other than its successful
\* commit changes the commission's status or remittance idempotency key, the
\* wallet balance or the WalletTransactions, so a call that fails at any step
\* leaves them as they were before it.
C21_FailureChangesNothing == [][C21_Step]_vars

\* the first attempt found the commission not pending and failed; after the
\* status was set back the second attempt remitted it
C21_Witness ==
  /\ rm[1].pc = "done" /\ rm[1].result = "NotFoundError"
  /\ rm[2].pc = "done" /\ rm[2].result = "ok"
  /\ comm.status = "remitted" /\ comm.hasKey
  /\ \E t \in wtx : t.type = "debit" /\ t.refType = "commission" /\ t.by = <<"remit", 2>>

\* ---------------------------------------------------------------- C22
\* the spec names no size for the window; the reset timeout is taken
FailureWindow == resetTimeout

\* a remitCommissionViaWallet or createCODCommission call enters in this step
CallEnters ==
  \/ \E r \in Remits : rm[r].pc = "idle" /\ rm'[r].pc # "idle"
  \/ \E c \in CodCalls : cod[c].pc = "idle" /\ cod'[c].pc # "idle"

LedgerUntouched == comm' = comm /\ balance' = balance /\ wtx' = wtx /\ codComms' = codComms

C22_Opens == (~cb.isOpen /\ cb'.isOpen) => (cb'.failures >= threshold /\ now - brk'.first <= FailureWindow)
C22_Rejects == (CallEnters /\ cb.isOpen /\ now - cb.lastFailure <= resetTimeout) => (Rejected /\ LedgerUntouched)
C22_Admits == (CallEnters /\ cb.isOpen /\ now - cb.lastFailure > resetTimeout) => ~Rejected

\* C22: the breaker opens only when the failures counted all fall within the
\* window and reach the threshold; while it is open every call is rejected
\* with ExternalServiceError and changes no commission or wallet; once the
\* reset timeout has elapsed calls are admitted again.
C22_BreakerWindow == [][C22_Opens /\ C22_Rejects /\ C22_Admits]_vars

\* ---------------------------------------------------------------- C29
\* C29: when no call that was let in has failed since the breaker opened, a
\* call arriving more than resetTimeout after it opened is admitted and the
\* failure count starts again, whatever calls were rejected in between.
C29_Step ==
  (CallEnters /\ cb.isOpen /\ ~brk.failedSince /\ now - brk.openedAt > resetTimeout)
    => (~Rejected /\ ~cb'.isOpen /\ cb'.failures <= 1)

C29_BreakerCloses == [][C29_Step]_vars

\* ---------------------------------------------------------------- C24
Positions(q) == {q[k].pos : k \in DOMAIN q}
Ascending(q) == \A k \in DOMAIN q : k > 1 => q[k - 1].pos < q[k].pos
Settled == IF bulk.pc \in {"loop", "done"} THEN bulk.i - 1 ELSE IF bulk.pc = "await" THEN bulk.i - 1 ELSE 0

\* C24: the ids of the batch are attempted in input order, one remittance in
\* flight at a time; a failing item goes to the failed list and the following
\* items are still attempted, so every input position ends in exactly one of
\* the two lists, and totalAmount is the sum of the successful commissions'
\* amounts (which is what the wallet was debited).
C24_SequentialBatch ==
  bulk.pc \notin {"off", "idle"} =>
    /\ bulk.inFlight <= 1
    /\ bulk.inFlight = (IF bulk.pc = "await" THEN 1 ELSE 0)
    /\ Positions(bulk.successful) \cup Positions(bulk.failed) = 1..Settled
    /\ Positions(bulk.successful) \cap Positions(bulk.failed) = {}
    /\ Len(bulk.successful) + Len(bulk.failed) = Settled
    /\ Ascending(bulk.successful) /\ Ascending(bulk.failed)
    /\ \A k \in DOMAIN bulk.successful : bulk.successful[k].commissionId = bulk.ids[bulk.successful[k].pos]
    /\ \A k \in DOMAIN bulk.failed : bulk.failed[k].commissionId = bulk.ids[bulk.failed[k].pos]
    /\ bulk.totalAmount = SumSeq(bulk.successful)
    /\ \A k \in DOMAIN bulk.successful :
         bulk.successful[k].amount = vendorComms[bulk.successful[k].commissionId].amount
    /\ bulk.pc = "done" => Settled = Len(bulk.ids)

\* a batch of three ended: the second item failed, the first and the third
\* were remitted
C24_Witness ==
  /\ bulk.pc = "done"
  /\ Len(bulk.ids) = 3
  /\ Positions(bulk.failed) = {2}
  /\ Positions(bulk.successful) = {1, 3}
  /\ bulk.totalAmount = bulk.successful[1].amount + bulk.successful[2].amount
  /\ bulk.totalAmount > 0

\* ---------------------------------------------------------------- C30
\* C30: the Payment createQRPHPayment persists for amount a has
\* netAmount = a - round(0.025 * a), and a fee strictly smaller than a when
\* a > 0.
C30_QRPHNetAmount ==
  (cr.pc = "done" /\ cr.kind = "qrph" /\ cr.result = "created") =>
    LET created == docs[Len(docs)]
    IN  /\ created.amount = cr.amount
        /\ created.netAmount = cr.amount - QRPHFee(cr.amount)
        /\ cr.amount > 0 => created.fee < cr.amount

\* ---------------------------------------------------------------- C27
\* no operation on withdrawal w is between its load and its last write
Quiescent(w) ==
  /\ cw[w].pc \in {"idle", "done"}
  /\ \A a \in AdminOps : adm[a].pc \in {"idle", "done"} \/ adm[a].target # w

\* what was taken from the wallet for withdrawal w, and what was given back
DebitedFor(w) == IF payRows[w].debited THEN payRows[w].amount ELSE 0
CreditedBack(w) == payRows[w].credits * payRows[w].amount

\* C27: under every interleaving of createWithdrawal, approveWithdrawal,
\* rejectWithdrawal, cancelWithdrawal and updateWithdrawalStatus, the total
\* credited back to the wallet for a withdraw Payment never exceeds the amount
\* debited for it, and is zero if the withdrawal ends succeeded.
C27_CreditBackBounded ==
  \A w \in Withdrawals :
    payRows[w].status # "none" =>
      /\ CreditedBack(w) <= DebitedFor(w)
      /\ (payRows[w].status = "succeeded" /\ Quiescent(w)) => CreditedBack(w) = 0

\* ---------------------------------------------------------------- C25
\* orders that call t saved
SavedBy(t) == {o.id : o \in {x \in orders : x.id[1] = t}}
MatRunning(t) == mt[t].pc \notin {"off", "idle", "done"}
GroupFailed(t) == Cardinality(mt[t].created) < mt[t].next - 1

C25_Step ==
  \A t \in MatCalls :
    /\ (MatRunning(t) /\ mt[t].pc = "save" /\ mt'[t] # mt[t] /\ orders' = orders /\ mt[t].next < Len(coPay.groups))
         => (mt'[t].pc = "save" /\ mt'[t].next = mt[t].next + 1)
    /\ (MatRunning(t) /\ mt'[t].pc = "done" /\ mt[t].created # {} /\ GroupFailed(t))
         => /\ coPay'.ordersCreated
            /\ coPay'.orderCreationError = "null"
            /\ coPay'.orderIds = mt[t].created
            /\ mt[t].created = SavedBy(t)
            /\ mt'[t].result = "orderIds" /\ mt'[t].returned = Cardinality(SavedBy(t))

\* C25: when the save of one vendor group's order fails during a
\* materialization, the following groups are still attempted, and a
\* materialization that saved at least one order leaves the payment with
\* ordersCreated = true, the in-progress marker cleared and orderIds equal to
\* exactly the ids of the orders it saved.
C25_PartialFailure == [][C25_Step]_vars

\* two vendor groups, one order saved, the other failed: the payment is
\* marked with the one saved order
C25_Witness ==
  /\ Len(coPay.groups) = 2
  /\ Cardinality(orders) = 1
  /\ coPay.ordersCreated /\ coPay.orderCreationError = "null"
  /\ coPay.orderIds = {o.id : o \in orders}
  /\ \E t \in MatCalls : mt[t].pc = "done" /\ mt[t].result = "orderIds" /\ mt[t].returned = 1 /\ SavedBy(t) # {}

\* ---------------------------------------------------------------- C26
C26_Step ==
  \A t \in MatCalls :
    (MatRunning(t) /\ mt[t].pc \in {"save", "finish", "catch"} /\ mt'[t].pc = "done" /\ mt[t].created = {})
      => /\ mt'[t].result = "Error"
         /\ ~coPay'.ordersCreated
         /\ coPay'.orderCreationError \notin {"in_progress", "null"}
         /\ ClaimFilter(coPay', clock')

\* C26: a materialization that creates no order raises, and leaves the
\* payment with ordersCreated = false and an orderCreationError that is not
\* the in-progress marker, so that the claim of a later createOrdersFromPayment
\* or recoverOrdersForPayment succeeds at once.
C26_ZeroOrders == [][C26_Step]_vars

\* a materialization failed and, with no time passed, a recovery call
\* created the orders
C26_Witness ==
  /\ clock = 0
  /\ \E t, u \in MatCalls :
       /\ t < u
       /\ mt[t].pc = "done" /\ mt[t].result = "Error"
       /\ mt[u].pc = "done" /\ mt[u].kind = "recover" /\ mt[u].result = "orderIds" /\ mt[u].returned > 0
       /\ SavedBy(u) = coPay.orderIds
  /\ coPay.ordersCreated

\* ---------------------------------------------------------------- C23
\* C23: a succeeded pay-first payment that keeps being triggered is
\* eventually materialized, also when the claim winner died after setting the
\* in-progress marker: the triggers within the stale cutoff of the payment's
\* last update only return the stored orderIds, a trigger after it takes the
\* claim over.
C23_EventuallyMaterialized == <>(coPay.ordersCreated)

\* ---------------------------------------------------------------- C28
AllQuiet == \A t \in MatCalls : mt[t].pc \in {"off", "idle", "done"}

\* C28: also when a claim is taken over as stale while its holder is still
\* running, no vendor group gets a second Order, and the payment ends with
\* one Order per vendor group and orderIds listing exactly those.
C28_OneSetOfOrders ==
  /\ \A v \in {"v1", "v2"} : Cardinality(OrdersOf(v)) <= 1
  /\ (coPay.ordersCreated /\ AllQuiet) => coPay.orderIds = {o.id : o \in orders}
====
